---------------------------- MODULE Spec2Model ----------------------------
(***************************************************************************)
(* A model of the CSV-to-playlist importer: the text normalizer and title  *)
(* variants (app/services/matching.py), the matcher TrackMatcher, the      *)
(* import loop PlaylistImporter.import_playlist and the playlist           *)
(* synchronizer PlaylistImporter._apply_playlist_changes                   *)
(* (app/services/playlist_importer.py).                                    *)
(*                                                                         *)
(* Text is a sequence of one-character strings.  Scores are in hundredths  *)
(* of a point (10000 is the score 100.0), similarities as the fuzzy        *)
(* library returns them are in thousandths (100000 is 100.0).              *)
(***************************************************************************)
EXTENDS Integers, Sequences, FiniteSets, TLC

(***************************************************************************)
(* Characters.                                                             *)
(***************************************************************************)
LowerLetters ==
    {"a","b","c","d","e","f","g","h","i","j","k","l","m",
     "n","o","p","q","r","s","t","u","v","w","x","y","z"}

UpperLetters ==
    {"A","B","C","D","E","F","G","H","I","J","K","L","M",
     "N","O","P","Q","R","S","T","U","V","W","X","Y","Z"}

Digits == {"0","1","2","3","4","5","6","7","8","9"}

\* \s of the regular expressions and the characters str.strip() removes
Whitespace == {" "}

\* [a-z0-9]
LowerAlnum == LowerLetters \cup Digits

\* \w, the characters on the word side of \b (of a str pattern: any letter)
WordChars == LowerLetters \cup UpperLetters \cup Digits \cup {"_", "é", "É", "ß"}

\* str.lower() on one character
LowerChar(c) ==
    CASE c = "A" -> "a" [] c = "B" -> "b" [] c = "C" -> "c" [] c = "D" -> "d"
      [] c = "E" -> "e" [] c = "F" -> "f" [] c = "G" -> "g" [] c = "H" -> "h"
      [] c = "I" -> "i" [] c = "J" -> "j" [] c = "K" -> "k" [] c = "L" -> "l"
      [] c = "M" -> "m" [] c = "N" -> "n" [] c = "O" -> "o" [] c = "P" -> "p"
      [] c = "Q" -> "q" [] c = "R" -> "r" [] c = "S" -> "s" [] c = "T" -> "t"
      [] c = "U" -> "u" [] c = "V" -> "v" [] c = "W" -> "w" [] c = "X" -> "x"
      [] c = "Y" -> "y" [] c = "Z" -> "z" [] c = "É" -> "é"
      [] OTHER -> c

\* unidecode() on one character: ASCII is kept, an accented letter becomes its
\* base letter, a sharp s becomes two letters
UnidecodeChar(c) ==
    CASE c = "é" -> <<"e">>
      [] c = "É" -> <<"E">>
      [] c = "ß" -> <<"s", "s">>
      [] OTHER -> <<c>>

Unidecode(text) ==
    LET rest[i \in 1..(Len(text) + 1)] ==
            IF i > Len(text) THEN <<>> ELSE UnidecodeChar(text[i]) \o rest[i + 1]
    IN rest[1]

Lower(text) == [i \in 1..Len(text) |-> LowerChar(text[i])]

(***************************************************************************)
(* Scanning helpers of the regular expressions.  A position is an index    *)
(* into the text; a match is reported as the position after its last       *)
(* character, 0 meaning no match.                                          *)
(***************************************************************************)
StartsWithAt(s, i, w) ==
    /\ i >= 1
    /\ i + Len(w) - 1 <= Len(s)
    /\ \A k \in 1..Len(w) : s[i + k - 1] = w[k]

\* a greedy run X*: the first position at or after i whose character is not in S
SkipWhile(s, i, S) ==
    CHOOSE j \in i..(Len(s) + 1) :
        /\ \A k \in i..(j - 1) : s[k] \in S
        /\ (j = Len(s) + 1 \/ s[j] \notin S)

\* a lazy run .*? up to the character c: the first position of c at or after i
FindChar(s, i, c) ==
    IF \E j \in i..Len(s) : s[j] = c
    THEN CHOOSE j \in i..Len(s) : s[j] = c /\ \A k \in i..(j - 1) : s[k] # c
    ELSE 0

\* str.strip()
Strip(s) ==
    IF \A k \in 1..Len(s) : s[k] \in Whitespace THEN <<>>
    ELSE LET a == CHOOSE i \in 1..Len(s) :
                    s[i] \notin Whitespace /\ \A k \in 1..(i - 1) : s[k] \in Whitespace
             b == CHOOSE j \in 1..Len(s) :
                    s[j] \notin Whitespace /\ \A k \in (j + 1)..Len(s) : s[k] \in Whitespace
         IN SubSeq(s, a, b)

(***************************************************************************)
(* normalize_key (matching.py 15-30, 195-203).                             *)
(***************************************************************************)
FeatDot == <<"f","e","a","t",".">>
Featuring == <<"f","e","a","t","u","r","i","n","g">>
Remaster == <<"r","e","m","a","s","t","e","r">>
Remastered == <<"r","e","m","a","s","t","e","r","e","d">>
Deluxe == <<"d","e","l","u","x","e">>
Edition == <<"e","d","i","t","i","o","n">>
DeluxeEdition == <<"d","e","l","u","x","e"," ","e","d","i","t","i","o","n">>
Live == <<"l","i","v","e">>
Explicit == <<"e","x","p","l","i","c","i","t">>

\* \((feat\.|featuring).*?\) matched at position i
MatchFeatParen(s, i) ==
    IF i > Len(s) \/ s[i] # "(" THEN 0
    ELSE LET k == IF StartsWithAt(s, i + 1, FeatDot) THEN i + 1 + Len(FeatDot)
                  ELSE IF StartsWithAt(s, i + 1, Featuring) THEN i + 1 + Len(Featuring)
                  ELSE 0
             j == IF k = 0 THEN 0 ELSE FindChar(s, k, ")")
         IN IF j = 0 THEN 0 ELSE j + 1

\* -\s*remaster(ed)?\s*\d* matched at position i
MatchDashRemaster(s, i) ==
    IF i > Len(s) \/ s[i] # "-" THEN 0
    ELSE LET j == SkipWhile(s, i + 1, Whitespace)
         IN IF ~StartsWithAt(s, j, Remaster) THEN 0
            ELSE LET k == j + Len(Remaster)
                     e == IF StartsWithAt(s, k, <<"e","d">>) THEN k + 2 ELSE k
                 IN SkipWhile(s, SkipWhile(s, e, Whitespace), Digits)

\* -\s*<word> matched at position i (word: "deluxe edition", "live")
MatchDashWord(s, i, w) ==
    IF i > Len(s) \/ s[i] # "-" THEN 0
    ELSE LET j == SkipWhile(s, i + 1, Whitespace)
         IN IF StartsWithAt(s, j, w) THEN j + Len(w) ELSE 0

\* \[.*?\] matched at position i
MatchBracket(s, i) ==
    IF i > Len(s) \/ s[i] # "[" THEN 0
    ELSE LET j == FindChar(s, i + 1, "]") IN IF j = 0 THEN 0 ELSE j + 1

\* REMOVALS, in the order of the tuple
REMOVALS == <<"feat_paren", "dash_remaster", "dash_deluxe_edition", "dash_live", "bracket">>

MatchRemoval(p, s, i) ==
    CASE p = "feat_paren" -> MatchFeatParen(s, i)
      [] p = "dash_remaster" -> MatchDashRemaster(s, i)
      [] p = "dash_deluxe_edition" -> MatchDashWord(s, i, DeluxeEdition)
      [] p = "dash_live" -> MatchDashWord(s, i, Live)
      [] p = "bracket" -> MatchBracket(s, i)

\* re.sub(pattern, " ", s): the leftmost matches, left to right, not overlapping
\* (rest[i] is the result for the text from position i on)
SubRemoval(p, s) ==
    LET rest[i \in 1..(Len(s) + 1)] ==
            IF i > Len(s) THEN <<>>
            ELSE IF MatchRemoval(p, s, i) # 0 THEN <<" ">> \o rest[MatchRemoval(p, s, i)]
            ELSE <<s[i]>> \o rest[i + 1]
    IN rest[1]

\* str.replace(word, " ")
Replace(s, word) ==
    LET rest[i \in 1..(Len(s) + 1)] ==
            IF i > Len(s) THEN <<>>
            ELSE IF StartsWithAt(s, i, word) THEN <<" ">> \o rest[i + Len(word)]
            ELSE <<s[i]>> \o rest[i + 1]
    IN rest[1]

\* re.sub(r"[^a-z0-9]+", " ", s)
CollapseNonAlnum(s) ==
    LET others == {s[k] : k \in 1..Len(s)} \ LowerAlnum
        rest[i \in 1..(Len(s) + 1)] ==
            IF i > Len(s) THEN <<>>
            ELSE IF s[i] \in others THEN <<" ">> \o rest[SkipWhile(s, i, others)]
            ELSE <<s[i]>> \o rest[i + 1]
    IN rest[1]

\* STOP_WORDS is a set of strings: the loop over it visits the words in the
\* order of their hashes, which the interpreter draws anew for every process.
\* Only the order of "remaster" and "remastered" changes a result (no other
\* word is part of another), so an order is one of these two.
RemasteredFirst == <<FeatDot, Featuring, Remastered, Remaster, Deluxe, Edition, Explicit>>
RemasterFirst == <<FeatDot, Featuring, Remaster, Remastered, Deluxe, Edition, Explicit>>
StopWordOrders == {RemasteredFirst, RemasterFirst}

\* for word in words: s = s.replace(word, " ")
RemoveStopWords(s, words) ==
    LET after[n \in 0..Len(words)] == IF n = 0 THEN s ELSE Replace(after[n - 1], words[n])
    IN after[Len(words)]

\* for pattern in patterns: s = re.sub(pattern, " ", s)
ApplyRemovals(s, patterns) ==
    LET after[n \in 0..Len(patterns)] == IF n = 0 THEN s ELSE SubRemoval(patterns[n], after[n - 1])
    IN after[Len(patterns)]

\* normalize_key(text), `order` being the process's order of STOP_WORDS
normalize_key(text, order) ==
    Strip(CollapseNonAlnum(
        RemoveStopWords(ApplyRemovals(Lower(Unidecode(text)), REMOVALS), order)))

(***************************************************************************)
(* TrackMatcher._title_variants (matching.py 174-192).                     *)
(***************************************************************************)
\* \s*\(.*?\) matched at position i
MatchSpacedParen(s, i) ==
    LET j == SkipWhile(s, i, Whitespace)
    IN IF j > Len(s) \/ s[j] # "(" THEN 0
       ELSE LET e == FindChar(s, j + 1, ")") IN IF e = 0 THEN 0 ELSE e + 1

\* re.sub(r"\s*\(.*?\)", "", title)
StripParentheses(s) ==
    LET rest[i \in 1..(Len(s) + 1)] ==
            IF i > Len(s) THEN <<>>
            ELSE IF MatchSpacedParen(s, i) # 0 THEN rest[MatchSpacedParen(s, i)]
            ELSE <<s[i]>> \o rest[i + 1]
    IN rest[1]

\* \s+-\s+ matched at position i
MatchSpacedDash(s, i) ==
    IF i > Len(s) \/ s[i] \notin Whitespace THEN 0
    ELSE LET j == SkipWhile(s, i, Whitespace)
         IN IF j + 1 <= Len(s) /\ s[j] = "-" /\ s[j + 1] \in Whitespace
            THEN SkipWhile(s, j + 1, Whitespace) ELSE 0

\* re.split(r"\s+-\s+", s, maxsplit=1)[0]
DashedSplit(s) ==
    IF \E i \in 1..Len(s) : MatchSpacedDash(s, i) # 0
    THEN LET i == CHOOSE i \in 1..Len(s) :
                    MatchSpacedDash(s, i) # 0 /\ \A k \in 1..(i - 1) : MatchSpacedDash(s, k) = 0
         IN SubSeq(s, 1, i - 1)
    ELSE s

\* \b at position k: exactly one of the characters before and at k is a word character
WordBoundary(s, k) ==
    LET before == k - 1 >= 1 /\ k - 1 <= Len(s) /\ s[k - 1] \in WordChars
        after == k >= 1 /\ k <= Len(s) /\ s[k] \in WordChars
    IN before # after

\* \s*(feat\.|featuring)\b.* with IGNORECASE matched at position i (it runs to the end)
MatchFeatTail(s, i) ==
    LET j == SkipWhile(s, i, Whitespace)
        low == Lower(s)
    IN \/ StartsWithAt(low, j, FeatDot) /\ WordBoundary(s, j + Len(FeatDot))
       \/ StartsWithAt(low, j, Featuring) /\ WordBoundary(s, j + Len(Featuring))

\* re.sub(r"\s*(feat\.|featuring)\b.*", "", s, flags=re.IGNORECASE)
FeatRemoved(s) ==
    IF \E i \in 1..Len(s) : MatchFeatTail(s, i)
    THEN LET i == CHOOSE i \in 1..Len(s) :
                    MatchFeatTail(s, i) /\ \A k \in 1..(i - 1) : ~MatchFeatTail(s, k)
         IN SubSeq(s, 1, i - 1)
    ELSE s

\* _add(value): variants (with seen, the lowered variants) after the call
AddVariant(variants, value) ==
    LET candidate == Strip(value)
    IN IF candidate # <<>> /\ \A k \in 1..Len(variants) : Lower(variants[k]) # Lower(candidate)
       THEN Append(variants, candidate) ELSE variants

_title_variants(title) ==
    LET stripped_parentheses == StripParentheses(title)
        dashed_split == DashedSplit(stripped_parentheses)
        feat_removed == FeatRemoved(dashed_split)
    IN AddVariant(AddVariant(AddVariant(AddVariant(<<>>, title),
                 stripped_parentheses), dashed_split), feat_removed)

(***************************************************************************)
(* PlaylistEntry (models.py 8-16).  An absent album_name (None) and an     *)
(* empty one are both the empty text: the code only tests its truth.       *)
(***************************************************************************)
combined_key(entry) == Strip(entry.artist_name \o <<" ", "-", " ">> \o entry.track_name)

(***************************************************************************)
(* TrackMatcher._build_queries (matching.py 94-109).  A query is a record; *)
(* a key the dict does not hold is the empty text.                         *)
(***************************************************************************)
\* QueriesOfTitle with the title-only query first
QueriesOfTitleFirst(title, artist, album) ==
    (IF title # <<>>
       THEN << [title |-> title, artist |-> <<>>, album |-> <<>>] >> ELSE <<>>)
    \o (IF title # <<>> /\ artist # <<>> /\ album # <<>>
       THEN << [title |-> title, artist |-> artist, album |-> album] >> ELSE <<>>)
    \o (IF title # <<>> /\ artist # <<>>
       THEN << [title |-> title, artist |-> artist, album |-> <<>>] >> ELSE <<>>)
    \o (IF title # <<>> /\ album # <<>>
       THEN << [title |-> title, artist |-> <<>>, album |-> album] >> ELSE <<>>)

QueriesOfTitle(title, artist, album) ==
    (IF title # <<>> /\ artist # <<>> /\ album # <<>>
       THEN << [title |-> title, artist |-> artist, album |-> album] >> ELSE <<>>)
    \o (IF title # <<>> /\ artist # <<>>
       THEN << [title |-> title, artist |-> artist, album |-> <<>>] >> ELSE <<>>)
    \o (IF title # <<>> /\ album # <<>>
       THEN << [title |-> title, artist |-> <<>>, album |-> album] >> ELSE <<>>)
    \o (IF title # <<>>
       THEN << [title |-> title, artist |-> <<>>, album |-> <<>>] >> ELSE <<>>)

QueriesOfVariants(title_variants, artist, album) ==
    LET rest[i \in 1..(Len(title_variants) + 1)] ==
            IF i > Len(title_variants) THEN <<>>
            ELSE QueriesOfTitle(title_variants[i], artist, album) \o rest[i + 1]
    IN rest[1]

_build_queries(entry) ==
    LET title_variants == _title_variants(entry.track_name)
        artist == Strip(entry.artist_name)
        album == IF entry.album_name # <<>> THEN Strip(entry.album_name) ELSE <<>>
    IN QueriesOfVariants(title_variants, artist, album)

(***************************************************************************)
(* The entries an import may be given, as the CSV loader builds them       *)
(* (csv_loader.py 62-83): track and artist stripped and not empty, the     *)
(* album stripped, or absent.                                              *)
(***************************************************************************)
EntryPool ==
    << [track_name |-> <<"S","o","s">>, artist_name |-> <<"A","b","b","a">>,
        album_name |-> <<>>],
       [track_name |-> <<"S","o","s">>, artist_name |-> <<"A","b","b","a">>,
        album_name |-> <<"G","o","l","d">>],
       [track_name |-> <<"S","o","s"," ","-"," ","L","i","v","e">>,
        artist_name |-> <<"A","b","b","a">>, album_name |-> <<>>],
       [track_name |-> <<"?">>, artist_name |-> <<"!","!">>, album_name |-> <<>>] >>

\* an entry whose key is near the keys of the library's tracks without being equal
\* to any: the fuzzy library's answer decides its scores
NearEntry ==
    [track_name |-> <<"S","o","l">>, artist_name |-> <<"A","b","b","a">>,
     album_name |-> <<>>]

(***************************************************************************)
(* The items of the catalog's library section, by ratingKey: what the      *)
(* code reads of an item (title, grandparentTitle, artist, parentTitle,    *)
(* type, locations, media[].parts[].file).                                 *)
(***************************************************************************)
Library ==
    << [ratingKey |-> 1, type |-> "track", title |-> <<"S","o","s">>,
        grandparentTitle |-> <<"A","b","b","a">>, artist |-> <<>>, parentTitle |-> <<>>,
        locations |-> << <<"/","a">> >>, media |-> <<>>],
       [ratingKey |-> 2, type |-> "track", title |-> <<"S","O","S"," ","-"," ","L","i","v","e">>,
        grandparentTitle |-> <<"A","B","B","A">>, artist |-> <<>>,
        parentTitle |-> <<"L","i","v","e">>,
        locations |-> <<>>, media |-> << << [file |-> <<>>] >> >>],
       [ratingKey |-> 3, type |-> "track",
        title |-> <<"S","o","s"," ","(","R","e","m","a","s","t","e","r","e","d",")">>,
        grandparentTitle |-> <<"A","b","b","a">>, artist |-> <<>>,
        parentTitle |-> <<"G","o","l","d">>,
        locations |-> <<>>, media |-> << << [file |-> <<"/","b">>] >> >>],
       [ratingKey |-> 4, type |-> "track", title |-> <<"!">>,
        grandparentTitle |-> <<>>, artist |-> <<"?">>, parentTitle |-> <<>>,
        locations |-> << <<"/","c">> >>, media |-> <<>>],
       [ratingKey |-> 5, type |-> "album", title |-> <<"G","o","l","d">>,
        grandparentTitle |-> <<>>, artist |-> <<>>, parentTitle |-> <<"A","b","b","a">>,
        locations |-> <<>>, media |-> <<>>] >>

RatingKeys == DOMAIN Library

\* what one catalog search may return: up to MaxResults items, in any order, an
\* item possibly twice
MaxResults == 2

SeqsUpTo(S, n) == UNION {[1..k -> S] : k \in 0..n}

\* a search either returns a list of items or raises (a transport error)
SearchError == <<0>>
SearchOutcomes == SeqsUpTo(RatingKeys, MaxResults) \cup {SearchError}

(***************************************************************************)
(* The fuzzy library (rapidfuzz.fuzz) is not part of the repository.  Its  *)
(* WRatio is 0 when a text is empty and 100 when the texts are equal and   *)
(* not empty; its partial_ratio is 100 when both texts are empty or when   *)
(* the shorter is found in the longer, 0 when only one is empty.  For any  *)
(* other pair the value is the environment's: one of SimValues, all below  *)
(* 100.  Values are in thousandths.                                        *)
(***************************************************************************)
SimValues == {0, 69996, 85714}

IsSubstring(a, b) ==
    \E i \in 1..(Len(b) - Len(a) + 1) : StartsWithAt(b, i, a)

WRatioDetermined(s1, s2) == s1 = <<>> \/ s2 = <<>> \/ s1 = s2

WRatio(s1, s2, w) ==
    IF s1 = <<>> \/ s2 = <<>> THEN 0
    ELSE IF s1 = s2 THEN 100000
    ELSE w

PartialRatioDetermined(s1, s2) ==
    s1 = <<>> \/ s2 = <<>> \/ IsSubstring(s1, s2) \/ IsSubstring(s2, s1)

partial_ratio(s1, s2, p) ==
    IF s1 = <<>> /\ s2 = <<>> THEN 100000
    ELSE IF s1 = <<>> \/ s2 = <<>> THEN 0
    ELSE IF IsSubstring(s1, s2) \/ IsSubstring(s2, s1) THEN 100000
    ELSE p

\* round(x, 2) of a value given in ten-thousandths, as hundredths; a tie goes to
\* the even neighbour (SimValues yields no tie)
Round2(x) ==
    LET q == x \div 100
        r == x % 100
    IN IF r > 50 \/ (r = 50 /\ q % 2 = 1) THEN q + 1 ELSE q

(***************************************************************************)
(* TrackMatcher._score_candidate (matching.py 159-172).  sim holds the     *)
(* fuzzy library's answers for this pair: sim.w for WRatio, sim.p for      *)
(* partial_ratio.  The score is in hundredths.                             *)
(***************************************************************************)
CandidateText(candidate) ==
    LET candidate_title == candidate.title
        candidate_artist == IF candidate.grandparentTitle # <<>>
                            THEN candidate.grandparentTitle ELSE candidate.artist
    IN candidate_artist \o <<" ", "-", " ">> \o candidate_title

\* normalize_key of the texts of EntryPool, Library and NearEntry under both orders,
\* computed once: the texts scored, and their keys at the same places
ScoredTexts ==
    [i \in DOMAIN EntryPool |-> combined_key(EntryPool[i])]
    \o [i \in DOMAIN EntryPool |-> EntryPool[i].album_name]
    \o [k \in DOMAIN Library |-> CandidateText(Library[k])]
    \o [k \in DOMAIN Library |-> Library[k].parentTitle]
    \o <<combined_key(NearEntry)>>

NormalizedTexts ==
    [i \in 1..Len(ScoredTexts) |-> normalize_key(ScoredTexts[i], RemasteredFirst)]
    \o [i \in 1..Len(ScoredTexts) |-> normalize_key(ScoredTexts[i], RemasterFirst)]

Normalized(text, order) ==
    NormalizedTexts[(CHOOSE i \in 1..Len(ScoredTexts) : ScoredTexts[i] = text)
                    + (IF order = RemasteredFirst THEN 0 ELSE Len(ScoredTexts))]

CandidateKey(candidate, order) == Normalized(CandidateText(candidate), order)

\* BlendScore without the test of line 168: the album score is always blended in
BlendScoreAlways(base_score, both_albums, album_score) ==
    Round2(base_score * 7 + album_score * 3)

\* lines 168-172: the blend with the album score, and round(base_score, 2)
BlendScore(base_score, both_albums, album_score) ==
    IF both_albums THEN Round2(base_score * 7 + album_score * 3)
    ELSE Round2(base_score * 10)

_score_candidate(entry, candidate, sim, order) ==
    BlendScore(WRatio(Normalized(combined_key(entry), order),
                      CandidateKey(candidate, order), sim.w),
               entry.album_name # <<>> /\ candidate.parentTitle # <<>>,
               partial_ratio(Normalized(entry.album_name, order),
                             Normalized(candidate.parentTitle, order), sim.p))

(***************************************************************************)
(* TrackMatcher._search_candidates (matching.py 111-157).  structured and  *)
(* fallback are what section.searchTracks and section.search do when       *)
(* called: a list of ratingKeys, or SearchError.                           *)
(***************************************************************************)
ValidTrack(k) ==
    /\ Library[k].title # <<>>
    /\ Library[k].type = "track"

FilterTracks(results) == SelectSeq(results, ValidTrack)

\* " ".join(filter(None, [artist, title, album])), or the title
JoinNonEmpty(parts) ==
    LET kept == SelectSeq(parts, LAMBDA t : t # <<>>)
        rest[i \in 1..(Len(kept) + 1)] ==
            IF i > Len(kept) THEN <<>>
            ELSE IF i = Len(kept) THEN kept[i]
            ELSE kept[i] \o <<" ">> \o rest[i + 1]
    IN rest[1]

FallbackQuery(query) ==
    LET fallback_query == JoinNonEmpty(<<query.artist, query.title, query.album>>)
    IN IF fallback_query = <<>> THEN query.title ELSE fallback_query

\* whether the call reaches section.search
UsesFallback(query, structured) ==
    /\ query.title # <<>>
    /\ FilterTracks(IF structured = SearchError THEN <<>> ELSE structured) = <<>>

_search_candidates(query, structured, fallback) ==
    IF query.title = <<>> THEN <<>>
    ELSE LET results == IF structured = SearchError THEN <<>> ELSE structured
             filtered == FilterTracks(results)
         IN IF filtered # <<>> THEN filtered
            ELSE IF fallback = SearchError THEN <<>>
            ELSE FilterTracks(fallback)

(***************************************************************************)
(* TrackMatcher.find_best_match (matching.py 51-92).  The locals of one    *)
(* call are a record: best (None, or track and score), seen_keys,          *)
(* had_candidates, best_score_seen; returned says that the call left the   *)
(* loops through the return of line 86.  last_scored and queries_run       *)
(* record the last candidate given to _score_candidate and the number of   *)
(* queries given to _search_candidates; scored records the calls of        *)
(* _score_candidate, with the score each returned; earlier holds the       *)
(* ratingKeys scored by the earlier calls of the same TrackMatcher.         *)
(***************************************************************************)
None == [track |-> 0, score |-> 0]

MatcherStart ==
    [best |-> None, seen_keys |-> {}, had_candidates |-> FALSE, best_score_seen |-> 0,
     returned |-> FALSE, last_scored |-> 0, queries_run |-> 0, scored |-> <<>>,
     earlier |-> {}]

Max(a, b) == IF a >= b THEN a ELSE b

\* ScoreStep with `score >= best.score` at line 83: a later candidate with the
\* same score replaces the best
ScoreStepLatest(m, rating_key, score, threshold) ==
    IF rating_key \in m.seen_keys THEN m
    ELSE [m EXCEPT !.seen_keys = @ \cup {rating_key},
                   !.best_score_seen = Max(@, score),
                   !.best = IF score >= threshold /\ (m.best = None \/ score >= m.best.score)
                            THEN [track |-> rating_key, score |-> score] ELSE @,
                   !.returned = /\ score >= threshold
                                /\ (m.best = None \/ score >= m.best.score)
                                /\ score = 10000,
                   !.last_scored = rating_key,
                   !.scored = Append(@, [track |-> rating_key, score |-> score])]

\* lines 70-86: one candidate of the inner loop, score being what
\* _score_candidate gives for it
ScoreStep(m, rating_key, score, threshold) ==
    IF rating_key \in m.seen_keys THEN m
    ELSE [m EXCEPT !.seen_keys = @ \cup {rating_key},
                   !.best_score_seen = Max(@, score),
                   !.best = IF score >= threshold /\ (m.best = None \/ score > m.best.score)
                            THEN [track |-> rating_key, score |-> score] ELSE @,
                   !.returned = /\ score >= threshold
                                /\ (m.best = None \/ score > m.best.score)
                                /\ score = 10000,
                   !.last_scored = rating_key,
                   !.scored = Append(@, [track |-> rating_key, score |-> score])]

\* ScoreUnlessReturned without the return of line 86: the loop goes on
ScoreAlways(m, rating_key, score, threshold) ==
    ScoreStep(m, rating_key, score, threshold)

\* lines 69-86: the inner loop, left at once by the return of line 86
\* (after[n] is the state after the first n candidates)
ScoreUnlessReturned(m, rating_key, score, threshold) ==
    IF m.returned THEN m ELSE ScoreStep(m, rating_key, score, threshold)

ScanCandidates(m, entry, candidates, sim, threshold, order) ==
    LET after[n \in 0..Len(candidates)] ==
            IF n = 0 THEN m
            ELSE ScoreUnlessReturned(
                     after[n - 1], candidates[n],
                     _score_candidate(entry, Library[candidates[n]], sim, order), threshold)
    IN after[Len(candidates)]

\* lines 66-68: the candidates of a query are in
FoundCandidates(m, candidates) ==
    [m EXCEPT !.had_candidates = @ \/ candidates # <<>>, !.queries_run = @ + 1]

\* lines 65-86: one query of the outer loop, candidates being what
\* _search_candidates gives for it
ScanQuery(m, entry, candidates, sim, threshold, order) ==
    ScanCandidates(FoundCandidates(m, candidates), entry, candidates, sim, threshold, order)

\* catalog holds what the catalog does for the query (structured, fallback) and
\* the fuzzy library's answers (w, p)
QueryStep(m, entry, query, catalog, threshold, order) ==
    ScanQuery(m, entry, _search_candidates(query, catalog.structured, catalog.fallback),
              [w |-> catalog.w, p |-> catalog.p], threshold, order)

\* MatchAttempt with the score of the result as best_score
MatchAttemptOfBest(m) ==
    [result |-> m.best, best_score |-> m.best.score, had_candidates |-> m.had_candidates]

\* lines 86 and 92: what the call returns
MatchAttempt(m) ==
    [result |-> m.best, best_score |-> m.best_score_seen, had_candidates |-> m.had_candidates]

\* the whole call, the catalog answering every query of the entry in the same way
\* (after[n] is the state after the first n queries)
QueryUnlessReturned(m, entry, query, catalog, threshold, order) ==
    IF m.returned THEN m ELSE QueryStep(m, entry, query, catalog, threshold, order)

RunQueries(m, entry, queries, catalog, threshold, order) ==
    LET after[n \in 0..Len(queries)] ==
            IF n = 0 THEN m
            ELSE QueryUnlessReturned(after[n - 1], entry, queries[n], catalog, threshold, order)
    IN after[Len(queries)]

find_best_match(entry, catalog, threshold, order) ==
    MatchAttempt(RunQueries(MatcherStart, entry, _build_queries(entry), catalog, threshold, order))

(***************************************************************************)
(* _has_playable_media (playlist_importer.py 173-190).                     *)
(***************************************************************************)
\* _has_playable_media ending in return True
_has_playable_media_by_default(track) ==
    \/ track.locations # <<>>
    \/ \E i \in 1..Len(track.media) :
          \E j \in 1..Len(track.media[i]) : track.media[i][j].file # <<>>
    \/ TRUE

_has_playable_media(track) ==
    \/ track.locations # <<>>
    \/ \E i \in 1..Len(track.media) :
          \E j \in 1..Len(track.media[i]) : track.media[i][j].file # <<>>

(***************************************************************************)
(* The texts of an UnmatchedTrack's reason (playlist_importer.py 69, 81-85)*)
(* A reason is the text with the values its format fields print.           *)
(***************************************************************************)
\* f"{x:.1f}" of a score in hundredths: the tenths printed (a tie goes to the
\* even neighbour; the scores of SimValues yield no tie)
Format1f(x) ==
    IF x % 10 > 5 \/ (x % 10 = 5 /\ (x \div 10) % 2 = 1) THEN x \div 10 + 1 ELSE x \div 10

\* f"{x:.0f}" of a threshold in hundredths: the integer printed
Format0f(x) ==
    IF x % 100 > 50 \/ (x % 100 = 50 /\ (x \div 100) % 2 = 1) THEN x \div 100 + 1
    ELSE x \div 100

NoPlayableMediaReason ==
    [text |-> "Matched Plex track has no playable media (check library paths).",
     fields |-> <<>>]

BestScoreReason(best_score, threshold) ==
    [text |-> "Best match score {:.1f} < threshold {:.0f}.",
     fields |-> <<Format1f(best_score), Format0f(threshold)>>]

NotFoundReason ==
    [text |-> "Track not found in the selected library.", fields |-> <<>>]

\* UnmatchedReason without the test of best_score
UnmatchedReasonOfCandidates(a, threshold) ==
    IF a.had_candidates THEN BestScoreReason(a.best_score, threshold)
    ELSE NotFoundReason

\* lines 80-85
UnmatchedReason(a, threshold) ==
    IF a.had_candidates /\ a.best_score > 0 THEN BestScoreReason(a.best_score, threshold)
    ELSE NotFoundReason

UnmatchedTrack(row, e, reason) ==
    [row |-> row, track_name |-> e.track_name, artist_name |-> e.artist_name,
     reason |-> reason]

(***************************************************************************)
(* State.                                                                  *)
(***************************************************************************)
VARIABLES
    match_threshold,    \* TrackMatcher.threshold, PlaylistImporter.match_threshold (hundredths)
    stop_words_order,   \* the order in which this process visits STOP_WORDS
    \* one call of TrackMatcher.find_best_match
    mpc,                \* "idle", "searching" (in the loop over queries), "done" (returned)
    arg_entry,          \* its argument entry
    built_queries,      \* _build_queries(entry)
    query_index,        \* the next query of the loop, from 1
    matcher,            \* best, seen_keys, had_candidates, best_score_seen
    attempt,            \* the MatchAttempt returned
    \* one call of PlaylistImporter.import_playlist
    ipc,                \* where the call is: "idle", "matching" (the loop of lines 55-99),
                        \* "sync" ... "appending" (in _apply_playlist_changes), "done", "failed"
    index,              \* the number of entries the loop has handled
    matched_tracks,     \* ratingKeys, in the order matched
    unmatched,          \* the UnmatchedTracks
    seen_rating_keys,
    matched_count,
    replace_existing,   \* the argument
    listed_items,       \* items: what playlist.items() returned
    retry_index,        \* the next item of the loop of lines 155-159, from 1
    result,             \* the ImportResult returned, or NoResult
    error,              \* the PlaylistImportError raised, or NoError
    \* the catalog's playlist of the name given
    playlist_exists,
    playlist_items,     \* ratingKeys, in playlist order
    \* history
    attempt_log,        \* the entries handled, each with the MatchAttempt it got
    prior_items,        \* playlist_items when the call began
    operations,         \* the catalog's mutations done by the call, in order
    \* the callers of the importer
    runs,               \* the calls of _apply_playlist_changes that returned before this one
    \* the web service (main.py) and its job tracker (progress.py)
    _jobs,              \* progress_tracker._jobs: job id -> processed, total, status
    requests,           \* the POST /import requests: job id, place of the handler, total,
                        \* place of the worker thread, entries the worker has handled
    running,            \* the request whose handler the event loop is running, or 0
    response,           \* what the last GET /progress/{job_id} answered
    terminal_reads,     \* per job id, the polls that answered a terminal status since
                        \* the job was started
    read_terminal,      \* the job ids for which a poll has answered a terminal status
    overlapped,         \* the job ids started while another request under the id was in progress
    progress_calls,     \* the values progress_callback was called with, call after call
    callback_raised,    \* whether the last call of progress_callback raised
    _lock,              \* progress_tracker._lock: the thread holding it, or 0
    threads,            \* the threads calling the tracker: the call each is in, how far
                        \* it is, and what the call returned
    held_jobs,          \* _jobs as it was when _lock was last acquired
    norm_input,         \* the text given to normalize_key
    norm_output,        \* what the last call of normalize_key returned
    norm_passes,        \* the calls of normalize_key made, each on the result of the last
    search_call         \* one call of _search_candidates: where it is, and what it met

matcher_vars == <<mpc, arg_entry, built_queries, query_index, matcher, attempt>>

loop_vars == <<index, matched_tracks, unmatched, seen_rating_keys, matched_count, attempt_log>>

sync_vars == <<listed_items, retry_index, result, error>>

catalog_vars == <<playlist_exists, playlist_items, operations>>

import_vars == <<ipc, loop_vars, replace_existing, sync_vars, catalog_vars, prior_items>>

job_vars == <<_jobs, requests, running, response, terminal_reads, read_terminal, overlapped>>

callback_vars == <<progress_calls, callback_raised>>

tracker_vars == <<_lock, threads, held_jobs>>

normalize_vars == <<norm_input, norm_output, norm_passes>>

caller_vars == <<runs, job_vars, callback_vars, tracker_vars, normalize_vars, search_call>>

\* the variables of one import_playlist call and of the run record
library_vars ==
    <<match_threshold, stop_words_order, matcher_vars, import_vars, runs, callback_vars,
      tracker_vars, normalize_vars, search_call>>

vars == <<match_threshold, stop_words_order, matcher_vars, import_vars, caller_vars>>

\* the configured thresholds tried: the default 70.0, and one above every score
Thresholds == {7000, 10100}

NoEntry == [track_name |-> <<>>, artist_name |-> <<>>, album_name |-> <<>>]

NoAttempt == [result |-> None, best_score |-> 0, had_candidates |-> FALSE]

NoQuery == [title |-> <<>>, artist |-> <<>>, album |-> <<>>]

\* no call of _search_candidates is on
SearchIdle == [pc |-> "idle", query |-> NoQuery, calls |-> <<>>, found |-> <<>>]

NoResult == [matched_count |-> -1, added_count |-> -1, unmatched |-> <<>>]

NoError == [type |-> "", playlist_name |-> "", cause |-> ""]

PoolEntries == {EntryPool[i] : i \in DOMAIN EntryPool}

MatcherIdle ==
    /\ mpc = "idle"
    /\ arg_entry = NoEntry
    /\ built_queries = <<>>
    /\ query_index = 0
    /\ matcher = MatcherStart
    /\ attempt = NoAttempt

\* lines 50-53, and the locals of _apply_playlist_changes
ImporterStart ==
    /\ index = 0
    /\ matched_tracks = <<>>
    /\ unmatched = <<>>
    /\ seen_rating_keys = {}
    /\ matched_count = 0
    /\ attempt_log = <<>>
    /\ listed_items = <<>>
    /\ retry_index = 0
    /\ result = NoResult
    /\ error = NoError
    /\ operations = <<>>

\* the job ids that callers supply
JobIds == {"a", "b"}

\* the POST /import requests
Requests == {1, 2}

NewRequest == [job_id |-> "", pc |-> "new", total |-> 0, worker |-> "none", index |-> 0]

NoResponse == [job_id |-> "", status |-> "", processed |-> 0, total |-> 0]

\* progress.py 8-10, and no request yet
ServiceStart ==
    /\ _jobs = <<>>
    /\ requests = [r \in Requests |-> NewRequest]
    /\ running = 0
    /\ response = NoResponse
    /\ terminal_reads = [j \in JobIds |-> 0]
    /\ read_terminal = {}
    /\ overlapped = {}

Threads == {1, 2}

\* a thread that is in no call of the tracker
NoCall == [pc |-> "idle", op |-> "", job_id |-> "", arg |-> 0, got |-> <<>>]

TrackerUnused ==
    /\ _lock = 0
    /\ threads = [t \in Threads |-> NoCall]
    /\ held_jobs = <<>>

\* no caller has done anything
CallerIdle ==
    /\ runs = <<>>
    /\ ServiceStart
    /\ progress_calls = <<>>
    /\ callback_raised = FALSE
    /\ TrackerUnused
    /\ norm_input = <<>>
    /\ norm_output = <<>>
    /\ norm_passes = 0
    /\ search_call = SearchIdle

ImporterIdle ==
    /\ ipc = "idle"
    /\ ImporterStart
    /\ replace_existing = FALSE
    /\ playlist_exists = FALSE
    /\ playlist_items = <<>>
    /\ prior_items = <<>>

(***************************************************************************)
(* MatchSpec: one call find_best_match(entry), the catalog free to answer  *)
(* every query differently.                                                *)
(***************************************************************************)
\* the answers of the fuzzy library that the candidates of a query may need
WChoices(e, candidates, order) ==
    IF \E i \in 1..Len(candidates) :
          ~WRatioDetermined(Normalized(combined_key(e), order),
                            CandidateKey(Library[candidates[i]], order))
    THEN SimValues ELSE {0}

PChoices(e, candidates, order) ==
    IF \E i \in 1..Len(candidates) :
          /\ e.album_name # <<>>
          /\ Library[candidates[i]].parentTitle # <<>>
          /\ ~PartialRatioDetermined(Normalized(e.album_name, order),
                                     Normalized(Library[candidates[i]].parentTitle, order))
    THEN SimValues ELSE {0}

AnswersWith(st, fb, ws, ps) ==
    {[structured |-> st, fallback |-> fb, w |-> w, p |-> p] : w \in ws, p \in ps}

CandidatesAnswers(e, st, fb, candidates, order) ==
    AnswersWith(st, fb, WChoices(e, candidates, order), PChoices(e, candidates, order))

\* what the catalog and the fuzzy library may do for one query of entry e
CatalogChoices(e, query, outcomes, order) ==
    UNION { UNION { CandidatesAnswers(e, st, fb, _search_candidates(query, st, fb), order) :
                    fb \in IF UsesFallback(query, st) THEN outcomes ELSE {<<>>} } :
            st \in outcomes }

\* the entries of one call
MatchEntries == PoolEntries \cup {NearEntry}

\* the thresholds of one call: those of Thresholds, and one that every score meets
MatchThresholds == Thresholds \cup {0}

InitMatch ==
    /\ match_threshold \in MatchThresholds
    /\ stop_words_order \in StopWordOrders
    /\ mpc = "searching"
    /\ arg_entry \in MatchEntries
    /\ built_queries = _build_queries(arg_entry)
    /\ query_index = 1
    /\ matcher = MatcherStart
    /\ attempt = NoAttempt
    /\ ImporterIdle
    /\ CallerIdle

\* lines 64-86: one turn of the loop over queries
RunQuery ==
    /\ mpc = "searching"
    /\ query_index <= Len(built_queries)
    /\ \E catalog \in CatalogChoices(arg_entry, built_queries[query_index], SearchOutcomes,
                                       stop_words_order) :
          matcher' = QueryStep(matcher, arg_entry, built_queries[query_index], catalog,
                               match_threshold, stop_words_order)
    /\ query_index' = query_index + 1
    /\ mpc' = IF matcher'.returned THEN "done" ELSE "searching"
    /\ attempt' = IF matcher'.returned THEN MatchAttempt(matcher') ELSE attempt
    /\ UNCHANGED <<match_threshold, stop_words_order, arg_entry, built_queries, import_vars,
                   caller_vars>>

\* lines 87-92: the loop is over
ReturnAttempt ==
    /\ mpc = "searching"
    /\ query_index > Len(built_queries)
    /\ attempt' = MatchAttempt(matcher)
    /\ mpc' = "done"
    /\ UNCHANGED <<match_threshold, stop_words_order, arg_entry, built_queries, query_index, matcher,
                   import_vars, caller_vars>>

NextMatch == RunQuery \/ ReturnAttempt

MatchSpec == InitMatch /\ [][NextMatch]_vars

(***************************************************************************)
(* RematchSpec: the calls find_best_match(entry) that one TrackMatcher gets *)
(* from the loop of import_playlist (playlist_importer.py 55-57), one after *)
(* the other, each for any entry.                                          *)
(***************************************************************************)
ScoredTracks(m) == {m.scored[i].track : i \in 1..Len(m.scored)}

InitRematch ==
    /\ match_threshold = 7000
    /\ stop_words_order = RemasterFirst
    /\ mpc = "searching"
    /\ arg_entry \in MatchEntries
    /\ built_queries = _build_queries(arg_entry)
    /\ query_index = 1
    /\ matcher = MatcherStart
    /\ attempt = NoAttempt
    /\ ImporterIdle
    /\ CallerIdle

\* NextCall with seen_keys kept by the TrackMatcher from call to call
NextCallKeepingSeen ==
    /\ mpc = "done"
    /\ arg_entry' \in MatchEntries
    /\ built_queries' = _build_queries(arg_entry')
    /\ query_index' = 1
    /\ matcher' = [MatcherStart EXCEPT !.earlier = matcher.earlier \cup ScoredTracks(matcher),
                                       !.seen_keys = matcher.seen_keys]
    /\ attempt' = NoAttempt
    /\ mpc' = "searching"
    /\ UNCHANGED <<match_threshold, stop_words_order, import_vars, caller_vars>>

\* lines 51-62, called again by playlist_importer.py 57: the locals are new
NextCall ==
    /\ mpc = "done"
    /\ arg_entry' \in MatchEntries
    /\ built_queries' = _build_queries(arg_entry')
    /\ query_index' = 1
    /\ matcher' = [MatcherStart EXCEPT !.earlier = matcher.earlier \cup ScoredTracks(matcher)]
    /\ attempt' = NoAttempt
    /\ mpc' = "searching"
    /\ UNCHANGED <<match_threshold, stop_words_order, import_vars, caller_vars>>

NextRematch == RunQuery \/ ReturnAttempt \/ NextCall

RematchSpec == InitRematch /\ [][NextRematch]_vars

(***************************************************************************)
(* Spec: one call import_playlist(playlist_name, entries, replace_existing)*)
(* once the server and the section are found (playlist_importer.py 49-117) *)
(* with _apply_playlist_changes (120-170).  The entries are met one by one *)
(* as the loop takes them; each call of the catalog is a step of its own,  *)
(* and may fail.                                                           *)
(***************************************************************************)
PlaylistName == "playlist"

\* the entries of a call: at most MaxEntries
MaxEntries == 2

\* the playlist before the call: at most MaxExisting items, of ExistingPool
MaxExisting == 2

ExistingPool == {1, 2}

\* what one search returns during an import: at most MaxImportResults items
MaxImportResults == 1

ImportOutcomes == SeqsUpTo(RatingKeys, MaxImportResults) \cup {SearchError}

\* the catalog answers every query of an entry in the same way
ImportCatalogs(e, order) ==
    CatalogChoices(e, _build_queries(e)[1], ImportOutcomes, order)

Init ==
    /\ match_threshold \in Thresholds
    /\ stop_words_order \in StopWordOrders
    /\ MatcherIdle
    /\ ipc = "matching"
    /\ ImporterStart
    /\ replace_existing \in BOOLEAN
    /\ playlist_exists \in BOOLEAN
    /\ playlist_items \in IF playlist_exists THEN SeqsUpTo(ExistingPool, MaxExisting)
                          ELSE {<<>>}
    /\ prior_items = playlist_items
    /\ CallerIdle

\* SkipUnplayable with the count of line 73 done before the test of line 59
SkipUnplayableCounted(e) ==
    /\ unmatched' = Append(unmatched, UnmatchedTrack(index + 2, e, NoPlayableMediaReason))
    /\ matched_count' = matched_count + 1
    /\ UNCHANGED <<matched_tracks, seen_rating_keys>>

\* lines 58-73: the match of entry e is track, and is not playable
SkipUnplayable(e) ==
    /\ unmatched' = Append(unmatched, UnmatchedTrack(index + 2, e, NoPlayableMediaReason))
    /\ UNCHANGED <<matched_tracks, seen_rating_keys, matched_count>>

\* KeepMatch without the test of line 75: the track is appended again
KeepMatchAgain(rating_key) ==
    /\ matched_count' = matched_count + 1
    /\ seen_rating_keys' = seen_rating_keys \cup {rating_key}
    /\ matched_tracks' = Append(matched_tracks, rating_key)
    /\ UNCHANGED unmatched

\* lines 73-78: the match is playable
KeepMatch(rating_key) ==
    /\ matched_count' = matched_count + 1
    /\ seen_rating_keys' = seen_rating_keys \cup {rating_key}
    /\ matched_tracks' = IF rating_key \in seen_rating_keys THEN matched_tracks
                         ELSE Append(matched_tracks, rating_key)
    /\ UNCHANGED unmatched

\* lines 79-93: no match
RecordUnmatched(e, a) ==
    /\ unmatched' = Append(unmatched,
                           UnmatchedTrack(index + 2, e, UnmatchedReason(a, match_threshold)))
    /\ UNCHANGED <<matched_tracks, seen_rating_keys, matched_count>>

\* lines 55-93: one turn of the loop, a being what find_best_match returned for e
HandleEntry(e, a) ==
    /\ index' = index + 1
    /\ attempt_log' = Append(attempt_log, [entry |-> e, attempt |-> a])
    /\ IF a.result # None
       THEN IF ~_has_playable_media(Library[a.result.track])
            THEN SkipUnplayable(e)
            ELSE KeepMatch(a.result.track)
       ELSE RecordUnmatched(e, a)

MatchEntry ==
    /\ ipc = "matching"
    /\ index < MaxEntries
    /\ \E e \in PoolEntries :
          \E catalog \in ImportCatalogs(e, stop_words_order) :
             HandleEntry(e, find_best_match(e, catalog, match_threshold, stop_words_order))
    /\ UNCHANGED <<match_threshold, stop_words_order, matcher_vars, caller_vars, ipc, replace_existing,
                   sync_vars, catalog_vars, prior_items>>

\* line 101: the entries are through
EndOfEntries ==
    /\ ipc = "matching"
    /\ ipc' = "sync"
    /\ UNCHANGED <<match_threshold, stop_words_order, matcher_vars, caller_vars, loop_vars,
                   replace_existing, sync_vars, catalog_vars, prior_items>>

\* a playlist without the first of its items that is track k
RemoveFirst(playlist, k) ==
    IF \E i \in 1..Len(playlist) : playlist[i] = k
    THEN LET at == CHOOSE i \in 1..Len(playlist) :
                       playlist[i] = k /\ \A j \in 1..(i - 1) : playlist[j] # k
         IN SubSeq(playlist, 1, at - 1) \o SubSeq(playlist, at + 1, Len(playlist))
    ELSE playlist

\* RemoveEach removing nothing
RemoveNone(playlist, removed) == playlist

\* playlist.removeItems(removed) done to the end
RemoveEach(playlist, removed) ==
    LET after[n \in 0..Len(removed)] ==
            IF n = 0 THEN playlist ELSE RemoveFirst(after[n - 1], removed[n])
    IN after[Len(removed)]

IsIn(k, playlist) == \E i \in 1..Len(playlist) : playlist[i] = k

\* NewTracks without the test of line 164
NewTracksAll(tracks, existing) == tracks

\* lines 163-164: the tracks whose ratingKey no existing item has
NewTracks(tracks, existing) == SelectSeq(tracks, LAMBDA k : ~IsIn(k, existing))

\* lines 113-117: _apply_playlist_changes returned added_count
Return(added_count) ==
    /\ result' = [matched_count |-> matched_count, added_count |-> added_count,
                  unmatched |-> unmatched]
    /\ ipc' = "done"
    /\ UNCHANGED error

\* Raise without the wrapping of lines 109-111: the cause leaves as it is
RaiseBare(cause) ==
    /\ error' = [type |-> cause, playlist_name |-> "", cause |-> cause]
    /\ ipc' = "failed"
    /\ UNCHANGED result

\* lines 109-111: _apply_playlist_changes raised cause
Raise(cause) ==
    /\ error' = [type |-> "PlaylistImportError", playlist_name |-> PlaylistName,
                 cause |-> cause]
    /\ ipc' = "failed"
    /\ UNCHANGED result

Mutation(op, tracks) == [op |-> op, tracks |-> tracks]

\* NoTracks without the return of line 130: the playlist is looked up
NoTracksLookup ==
    /\ ipc = "sync"
    /\ matched_tracks = <<>>
    /\ ipc' = (IF playlist_exists THEN "found" ELSE "absent")
    /\ UNCHANGED <<match_threshold, stop_words_order, matcher_vars, caller_vars, loop_vars,
                   replace_existing, sync_vars, catalog_vars, prior_items>>

\* lines 128-130
NoTracks ==
    /\ ipc = "sync"
    /\ matched_tracks = <<>>
    /\ Return(0)
    /\ UNCHANGED <<match_threshold, stop_words_order, matcher_vars, caller_vars, loop_vars,
                   replace_existing, listed_items, retry_index, catalog_vars, prior_items>>

\* lines 132-135: plex.playlist(playlist_name) returns the playlist, raises
\* NotFound, or raises something else
LookupPlaylist ==
    /\ ipc = "sync"
    /\ matched_tracks # <<>>
    /\ \/ ipc' = (IF playlist_exists THEN "found" ELSE "absent") /\ UNCHANGED <<result, error>>
       \/ Raise("playlist")
    /\ UNCHANGED <<match_threshold, stop_words_order, matcher_vars, caller_vars, loop_vars,
                   replace_existing, listed_items, retry_index, catalog_vars, prior_items>>

\* CreatePlaylist without items=tracks: the playlist is created empty
CreatePlaylistEmpty ==
    /\ ipc = "absent"
    /\ \/ /\ playlist_exists' = TRUE
          /\ playlist_items' = <<>>
          /\ operations' = Append(operations, Mutation("createPlaylist", <<>>))
          /\ Return(Len(matched_tracks))
       \/ Raise("createPlaylist") /\ UNCHANGED catalog_vars
    /\ UNCHANGED <<match_threshold, stop_words_order, matcher_vars, caller_vars, loop_vars,
                   replace_existing, listed_items, retry_index, prior_items>>

\* lines 137-145
CreatePlaylist ==
    /\ ipc = "absent"
    /\ \/ /\ playlist_exists' = TRUE
          /\ playlist_items' = matched_tracks
          /\ operations' = Append(operations, Mutation("createPlaylist", matched_tracks))
          /\ Return(Len(matched_tracks))
       \/ Raise("createPlaylist") /\ UNCHANGED catalog_vars
    /\ UNCHANGED <<match_threshold, stop_words_order, matcher_vars, caller_vars, loop_vars,
                   replace_existing, listed_items, retry_index, prior_items>>

\* ListItems with the removal of lines 149-159 done whatever replace_existing is
ListItemsRemoving ==
    /\ ipc = "found"
    /\ \/ /\ listed_items' = playlist_items
          /\ ipc' = IF playlist_items # <<>> THEN "removing"
                    ELSE IF replace_existing THEN "adding" ELSE "appending"
          /\ UNCHANGED <<result, error>>
       \/ Raise("items") /\ UNCHANGED listed_items
    /\ UNCHANGED <<match_threshold, stop_words_order, matcher_vars, caller_vars, loop_vars,
                   replace_existing, retry_index, catalog_vars, prior_items>>

\* lines 147-150 and 163: playlist.items()
ListItems ==
    /\ ipc = "found"
    /\ \/ /\ listed_items' = playlist_items
          /\ ipc' = IF replace_existing
                    THEN (IF playlist_items # <<>> THEN "removing" ELSE "adding")
                    ELSE "appending"
          /\ UNCHANGED <<result, error>>
       \/ Raise("items") /\ UNCHANGED listed_items
    /\ UNCHANGED <<match_threshold, stop_words_order, matcher_vars, caller_vars, loop_vars,
                   replace_existing, retry_index, catalog_vars, prior_items>>

\* lines 151-154: playlist.removeItems(items) removes every item, or raises
\* having removed the first removed_count of them
RemoveItems ==
    /\ ipc = "removing"
    /\ \/ /\ playlist_items' = RemoveEach(playlist_items, listed_items)
          /\ operations' = Append(operations, Mutation("removeItems", listed_items))
          /\ ipc' = "adding"
          /\ UNCHANGED retry_index
       \/ \E removed_count \in 0..Len(listed_items) :
             /\ playlist_items' =
                    RemoveEach(playlist_items, SubSeq(listed_items, 1, removed_count))
             /\ operations' =
                    Append(operations,
                           Mutation("removeItems", SubSeq(listed_items, 1, removed_count)))
             /\ ipc' = "retrying"
             /\ retry_index' = 1
    /\ UNCHANGED <<match_threshold, stop_words_order, matcher_vars, caller_vars, loop_vars,
                   replace_existing, listed_items, result, error, playlist_exists,
                   prior_items>>

\* RemoveOne without the except of line 158: the error of a single removal
\* leaves _apply_playlist_changes
RemoveOneUncaught ==
    /\ ipc = "retrying"
    /\ \/ /\ IsIn(listed_items[retry_index], playlist_items)
          /\ playlist_items' = RemoveFirst(playlist_items, listed_items[retry_index])
          /\ operations' = Append(operations,
                                  Mutation("removeItems", <<listed_items[retry_index]>>))
          /\ retry_index' = retry_index + 1
          /\ ipc' = IF retry_index = Len(listed_items) THEN "adding" ELSE "retrying"
          /\ UNCHANGED <<result, error>>
       \/ Raise("removeItems") /\ UNCHANGED <<playlist_items, operations, retry_index>>
    /\ UNCHANGED <<match_threshold, stop_words_order, matcher_vars, caller_vars, loop_vars,
                   replace_existing, listed_items, playlist_exists, prior_items>>

\* lines 155-159: playlist.removeItems([item]) for the next item; it raises when
\* the playlist no longer holds the item, and may raise when it does; what it
\* raises is logged and dropped
RemoveOne ==
    /\ ipc = "retrying"
    /\ \/ /\ IsIn(listed_items[retry_index], playlist_items)
          /\ playlist_items' = RemoveFirst(playlist_items, listed_items[retry_index])
          /\ operations' = Append(operations,
                                  Mutation("removeItems", <<listed_items[retry_index]>>))
       \/ UNCHANGED <<playlist_items, operations>>
    /\ retry_index' = retry_index + 1
    /\ ipc' = IF retry_index = Len(listed_items) THEN "adding" ELSE "retrying"
    /\ UNCHANGED <<match_threshold, stop_words_order, matcher_vars, caller_vars, loop_vars,
                   replace_existing, listed_items, result, error, playlist_exists,
                   prior_items>>

\* AddItems adding only the tracks the playlist did not hold, as lines 163-170 do
AddItemsNew ==
    /\ ipc = "adding"
    /\ \/ /\ playlist_items' = playlist_items \o NewTracks(matched_tracks, listed_items)
          /\ operations' = Append(operations,
                                  Mutation("addItems", NewTracks(matched_tracks, listed_items)))
          /\ Return(Len(NewTracks(matched_tracks, listed_items)))
       \/ Raise("addItems") /\ UNCHANGED <<playlist_items, operations>>
    /\ UNCHANGED <<match_threshold, stop_words_order, matcher_vars, caller_vars, loop_vars,
                   replace_existing, listed_items, retry_index, playlist_exists, prior_items>>

\* lines 160-161
AddItems ==
    /\ ipc = "adding"
    /\ \/ /\ playlist_items' = playlist_items \o matched_tracks
          /\ operations' = Append(operations, Mutation("addItems", matched_tracks))
          /\ Return(Len(matched_tracks))
       \/ Raise("addItems") /\ UNCHANGED <<playlist_items, operations>>
    /\ UNCHANGED <<match_threshold, stop_words_order, matcher_vars, caller_vars, loop_vars,
                   replace_existing, listed_items, retry_index, playlist_exists, prior_items>>

\* lines 163-167: every matched track is in the playlist already
NoNewTracks ==
    /\ ipc = "appending"
    /\ NewTracks(matched_tracks, listed_items) = <<>>
    /\ Return(0)
    /\ UNCHANGED <<match_threshold, stop_words_order, matcher_vars, caller_vars, loop_vars,
                   replace_existing, listed_items, retry_index, catalog_vars, prior_items>>

\* lines 163-170
AppendItems ==
    /\ ipc = "appending"
    /\ NewTracks(matched_tracks, listed_items) # <<>>
    /\ \/ /\ playlist_items' = playlist_items \o NewTracks(matched_tracks, listed_items)
          /\ operations' = Append(operations,
                                  Mutation("addItems", NewTracks(matched_tracks, listed_items)))
          /\ Return(Len(NewTracks(matched_tracks, listed_items)))
       \/ Raise("addItems") /\ UNCHANGED <<playlist_items, operations>>
    /\ UNCHANGED <<match_threshold, stop_words_order, matcher_vars, caller_vars, loop_vars,
                   replace_existing, listed_items, retry_index, playlist_exists, prior_items>>

Next ==
    \/ MatchEntry
    \/ EndOfEntries
    \/ NoTracks
    \/ LookupPlaylist
    \/ CreatePlaylist
    \/ ListItems
    \/ RemoveItems
    \/ RemoveOne
    \/ AddItems
    \/ NoNewTracks
    \/ AppendItems

Spec == Init /\ [][Next]_vars

(***************************************************************************)
(* The import loop: what is claimed of it.                                 *)
(***************************************************************************)
\* the track has a media location, or a media part with a file path
Playable(k) ==
    \/ Len(Library[k].locations) > 0
    \/ \E i \in DOMAIN Library[k].media :
          \E j \in DOMAIN Library[k].media[i] : Len(Library[k].media[i][j].file) > 0

\* the entry handled got a match at or above the threshold, and a playable one
GotPlayableMatch(handled) ==
    /\ handled.attempt.result # None
    /\ handled.attempt.result.score >= match_threshold
    /\ Playable(handled.attempt.result.track)

\* the tracks of the entries that got a playable match, an entry after the other
PlayableMatches ==
    LET upto[n \in 0..Len(attempt_log)] ==
            IF n = 0 THEN <<>>
            ELSE IF GotPlayableMatch(attempt_log[n])
                 THEN Append(upto[n - 1], attempt_log[n].attempt.result.track)
                 ELSE upto[n - 1]
    IN upto[Len(attempt_log)]

\* a list without the later occurrences of its elements
FirstOccurrences(list) ==
    LET upto[n \in 0..Len(list)] ==
            IF n = 0 THEN <<>>
            ELSE IF \E i \in 1..(n - 1) : list[i] = list[n] THEN upto[n - 1]
                 ELSE Append(upto[n - 1], list[n])
    IN upto[Len(list)]

\* C1: the matched-track list never holds a ratingKey twice: it holds the
\* tracks of the entries that got a playable match at or above the threshold,
\* each once, at the place of the first entry that got it, and matched_count is
\* the number of these entries.
C1_MatchedTracksUnique ==
    /\ \A i, j \in 1..Len(matched_tracks) :
          i # j => matched_tracks[i] # matched_tracks[j]
    /\ matched_tracks = FirstOccurrences(PlayableMatches)
    /\ matched_count = Len(PlayableMatches)

\* two entries got the same playable track: it is counted twice and held once
C1_Witness ==
    /\ Len(attempt_log) = 2
    /\ GotPlayableMatch(attempt_log[1])
    /\ GotPlayableMatch(attempt_log[2])
    /\ attempt_log[1].attempt.result.track = attempt_log[2].attempt.result.track
    /\ matched_count = 2
    /\ Len(matched_tracks) = 1

\* the entry handled by the step, with the attempt it got
HandledNow == attempt_log'[Len(attempt_log')]

\* the reason claimed for an entry whose attempt a has no result
ClaimedReason(a) ==
    IF a.had_candidates /\ a.best_score > 0
    THEN [text |-> "Best match score {:.1f} < threshold {:.0f}.",
          fields |-> <<Format1f(a.best_score), Format0f(match_threshold)>>]
    ELSE [text |-> "Track not found in the selected library.", fields |-> <<>>]

NoResultStep(handled) ==
    /\ unmatched' = Append(unmatched,
                           [row |-> index + 2,
                            track_name |-> handled.entry.track_name,
                            artist_name |-> handled.entry.artist_name,
                            reason |-> ClaimedReason(handled.attempt)])
    /\ ~handled.attempt.had_candidates =>
          unmatched'[Len(unmatched')].reason.text = "Track not found in the selected library."
    /\ matched_count' = matched_count
    /\ matched_tracks' = matched_tracks

\* C2: an entry whose attempt has no result is recorded unmatched with the
\* reason "Best match score {best_score:.1f} < threshold {threshold:.0f}." exactly
\* when had_candidates holds and best_score > 0, and with "Track not found in the
\* selected library." otherwise, so always when no query returned a candidate;
\* matched_count stays as it is.
C2_UnmatchedReason ==
    [][(index' = index + 1 /\ HandledNow.attempt.result = None) => NoResultStep(HandledNow)]_vars

\* an entry whose candidates all scored 0 and an entry whose best score is
\* below the threshold have both been recorded
C2_Witness ==
    /\ Len(attempt_log) = 2
    /\ Len(unmatched) = 2
    /\ attempt_log[1].attempt.had_candidates
    /\ attempt_log[1].attempt.best_score = 0
    /\ unmatched[1].reason.text = "Track not found in the selected library."
    /\ attempt_log[2].attempt.result = None
    /\ attempt_log[2].attempt.best_score > 0
    /\ unmatched[2].reason.text = "Best match score {:.1f} < threshold {:.0f}."

\* the step handles an entry whose match is not playable, and records reason_text
UnplayableStep(handled, reason_text) ==
    /\ unmatched' = Append(unmatched,
                           [row |-> index + 2,
                            track_name |-> handled.entry.track_name,
                            artist_name |-> handled.entry.artist_name,
                            reason |-> [text |-> reason_text, fields |-> <<>>]])
    /\ matched_count' = matched_count
    /\ matched_tracks' = matched_tracks

GotUnplayableMatch(handled) ==
    /\ handled.attempt.result # None
    /\ ~Playable(handled.attempt.result.track)

\* C3 (as amended): when the matcher returns a candidate that is not playable
\* (no media location and no media part with a file path), the track is not
\* added to the matched-track list, matched_count is not incremented, and an
\* UnmatchedTrack of the entry is appended whose reason is exactly "Matched Plex
\* track has no playable media (check library paths).".
C3_UnplayableSkipped ==
    [][(index' = index + 1 /\ GotUnplayableMatch(HandledNow)) =>
          UnplayableStep(HandledNow,
                         "Matched Plex track has no playable media (check library paths).")]_vars

\* an entry matched the track without media, and is recorded unmatched
C3_Witness ==
    /\ Len(attempt_log) = 1
    /\ GotUnplayableMatch(attempt_log[1])
    /\ matched_tracks = <<>>
    /\ matched_count = 0
    /\ Len(unmatched) = 1
    /\ unmatched[1].reason.text =
          "Matched Plex track has no playable media (check library paths)."

\* C3 as claimed: the reason is exactly "Matched track has no playable media
\* (check library paths).".
C3_AsClaimed ==
    [][(index' = index + 1 /\ GotUnplayableMatch(HandledNow)) =>
          UnplayableStep(HandledNow,
                         "Matched track has no playable media (check library paths).")]_vars

(***************************************************************************)
(* The matcher: what is claimed of it.                                     *)
(***************************************************************************)
\* the candidate's normalized "<artist> - <title>" is the entry's normalized
\* combined key
KeysEqual(k) ==
    Normalized(combined_key(arg_entry), stop_words_order)
        = CandidateKey(Library[k], stop_words_order)

KeyNotEmpty(k) == CandidateKey(Library[k], stop_words_order) # <<>>

Contains(a, b) == a # <<>> /\ b # <<>> /\ (IsSubstring(a, b) \/ IsSubstring(b, a))

\* the album names do not lower the score: one is missing, or one normalized
\* album name is found in the other
AlbumsAgree(k) ==
    \/ arg_entry.album_name = <<>>
    \/ Library[k].parentTitle = <<>>
    \/ Normalized(arg_entry.album_name, stop_words_order) = <<>>
         /\ Normalized(Library[k].parentTitle, stop_words_order) = <<>>
    \/ Contains(Normalized(arg_entry.album_name, stop_words_order),
                Normalized(Library[k].parentTitle, stop_words_order))

\* find_best_match has returned candidate k with score 100, k being the last
\* candidate scored and no query run since
ReturnedAtOnce(k) ==
    /\ matcher.returned
    /\ matcher.best = [track |-> k, score |-> 10000]
    /\ matcher.last_scored = k
    /\ mpc = "done"
    /\ attempt.result = [track |-> k, score |-> 10000]
    /\ matcher.queries_run = query_index - 1

\* C4 (as amended): if the candidate's normalized "<artist> - <title>" equals the
\* entry's normalized combined key and is not empty, the entry or the candidate
\* has no album name or one normalized album name is found in the other, and
\* the threshold is at most 100, then the score is 100 and find_best_match
\* returns that candidate without scoring any later candidate or running any
\* later query.
C4_EqualKeysReturn ==
    \A k \in matcher.seen_keys :
       (KeysEqual(k) /\ KeyNotEmpty(k) /\ AlbumsAgree(k) /\ match_threshold <= 10000)
          => ReturnedAtOnce(k)

\* a candidate of equal key was returned from the first query of several, the
\* entry naming an album and the candidate none
C4_Witness ==
    /\ mpc = "done"
    /\ matcher.returned
    /\ KeysEqual(matcher.best.track)
    /\ arg_entry.album_name # <<>>
    /\ Library[matcher.best.track].parentTitle = <<>>
    /\ query_index = 2
    /\ Len(built_queries) > 1

\* C4 as claimed: with or without album names on either side, a candidate of
\* equal normalized key scores 100 and is returned at once.
C4_AsClaimed ==
    \A k \in matcher.seen_keys : KeysEqual(k) => ReturnedAtOnce(k)

\* C5 (as amended): for a threshold of at most 100, as soon as a candidate scores
\* exactly 100 the matcher stops and returns that candidate: no candidate after
\* it in the query is scored and no later query is run.
C5_EarlyExit ==
    (match_threshold <= 10000 /\ matcher.best_score_seen = 10000)
       => ReturnedAtOnce(matcher.last_scored)

\* the second candidate scored got 100 and was returned, queries being left
C5_Witness ==
    /\ match_threshold <= 10000
    /\ matcher.best_score_seen = 10000
    /\ matcher.returned
    /\ Cardinality(matcher.seen_keys) = 2
    /\ query_index <= Len(built_queries)

\* C5 as claimed: for any configured threshold, a candidate that scores exactly
\* 100 is returned at once.
C5_AsClaimed ==
    matcher.best_score_seen = 10000 => ReturnedAtOnce(matcher.last_scored)

(***************************************************************************)
(* The synchronizer: what is claimed of it.                                *)
(***************************************************************************)
\* the playlist was there when the call began
PlaylistExisted ==
    /\ playlist_exists
    /\ \A i \in 1..Len(operations) : operations[i].op # "createPlaylist"

\* the number of tracks the operations op1 or op2 of the call carried
TracksOf(op1, op2) ==
    LET upto[n \in 0..Len(operations)] ==
            IF n = 0 THEN 0
            ELSE IF operations[n].op \in {op1, op2}
                 THEN upto[n - 1] + Len(operations[n].tracks)
                 ELSE upto[n - 1]
    IN upto[Len(operations)]

Written == TracksOf("createPlaylist", "addItems")

Removed == TracksOf("removeItems", "removeItems")

\* the items of list at the places kept, in order
ItemsAt(list, kept) ==
    LET upto[n \in 0..Len(list)] ==
            IF n = 0 THEN <<>>
            ELSE IF n \in kept THEN Append(upto[n - 1], list[n]) ELSE upto[n - 1]
    IN upto[Len(list)]

ReplaceReturned ==
    /\ ipc = "done"
    /\ replace_existing
    /\ PlaylistExisted
    /\ matched_tracks # <<>>

\* C6 (as amended): when the playlist exists, replace=true and the matched list
\* is not empty, a call that returns normally has tried to remove every item
\* the playlist held and then added all matched tracks: the playlist holds the
\* prior items whose removal failed, then the matched tracks, so exactly the
\* matched tracks when every item was removed, and added_count = len(tracks).
C6_Replace ==
    ReplaceReturned =>
       /\ result.added_count = Len(matched_tracks)
       /\ \E kept \in SUBSET (1..Len(prior_items)) :
             /\ playlist_items = ItemsAt(prior_items, kept) \o matched_tracks
             /\ Removed = Len(prior_items) - Cardinality(kept)
       /\ Removed = Len(prior_items) => playlist_items = matched_tracks
       /\ operations[Len(operations)] = [op |-> "addItems", tracks |-> matched_tracks]
       /\ \A i \in 1..(Len(operations) - 1) : operations[i].op = "removeItems"

\* a playlist of two items, one of them matched again, holds the two matched
\* tracks after the call
C6_Witness ==
    /\ ReplaceReturned
    /\ Len(prior_items) = 2
    /\ prior_items[1] # prior_items[2]
    /\ Len(matched_tracks) = 2
    /\ playlist_items = matched_tracks
    /\ playlist_items # prior_items

\* C6 as claimed: the call has removed all items the playlist held and the
\* playlist holds exactly the matched tracks.
C6_AsClaimed ==
    ReplaceReturned =>
       /\ result.added_count = Len(matched_tracks)
       /\ Removed = Len(prior_items)
       /\ playlist_items = matched_tracks

\* the matched tracks whose ratingKey no prior item has
Difference ==
    SelectSeq(matched_tracks,
              LAMBDA k : k \notin {prior_items[i] : i \in 1..Len(prior_items)})

AppendedExactly(difference) ==
    /\ result.added_count = Len(difference)
    /\ playlist_items = prior_items \o difference
    /\ operations = IF difference = <<>> THEN <<>>
                    ELSE << [op |-> "addItems", tracks |-> difference] >>

\* C7: when the playlist exists and replace=false, a call that returns has added
\* exactly the matched tracks whose ratingKey no existing item has, in matched
\* order, in one add call, and added_count is their number; when there is none
\* it has made no add call and returned 0.
C7_Append ==
    (ipc = "done" /\ ~replace_existing /\ PlaylistExisted) => AppendedExactly(Difference)

\* of two matched tracks one was in the playlist: the other was added
C7_Witness ==
    /\ ipc = "done"
    /\ ~replace_existing
    /\ PlaylistExisted
    /\ Len(matched_tracks) = 2
    /\ result.added_count = 1
    /\ Len(playlist_items) = Len(prior_items) + 1

\* the call created the playlist, holding all matched tracks
CreatedWithTracks ==
    /\ playlist_exists
    /\ playlist_items = matched_tracks
    /\ operations = << [op |-> "createPlaylist", tracks |-> matched_tracks] >>
    /\ result.added_count = Len(matched_tracks)

\* C8 (as amended): the added_count a successful import returns is the number of
\* tracks the call wrote to the playlist; when no playlist of the name exists
\* and the matched list is not empty, one is created holding all matched tracks
\* and added_count = len(tracks), whatever replace is.
C8_AddedCount ==
    ipc = "done" =>
       /\ result.added_count = Written
       /\ (~PlaylistExisted /\ matched_tracks # <<>>) => CreatedWithTracks

\* a playlist was created with two tracks, replace being set
C8_Witness ==
    /\ ipc = "done"
    /\ replace_existing
    /\ ~PlaylistExisted
    /\ Len(matched_tracks) = 2
    /\ CreatedWithTracks

\* C8 as claimed: whenever no playlist of the name exists, one is created.
C8_AsClaimed ==
    ipc = "done" =>
       /\ result.added_count = Written
       /\ ~PlaylistExisted => CreatedWithTracks

\* C9: when the matched-track list is empty the synchronizer changes nothing in
\* the catalog (no create, no remove, no add), also when replace=true and the
\* playlist exists with items, and added_count is 0.
C9_NoTracksNoMutation ==
    (ipc # "matching" /\ matched_tracks = <<>>) =>
       /\ ipc \in {"sync", "done"}
       /\ operations = <<>>
       /\ playlist_items = prior_items
       /\ error = NoError
       /\ ipc = "done" => result.added_count = 0

\* no entry matched; the call returned with replace set and the playlist's
\* items in place
C9_Witness ==
    /\ ipc = "done"
    /\ Len(attempt_log) > 0
    /\ matched_tracks = <<>>
    /\ replace_existing
    /\ playlist_exists
    /\ Len(playlist_items) = 2
    /\ result.added_count = 0

\* the call of the catalog that a step from this place makes
CallAt(place) ==
    CASE place = "sync" -> "playlist"
      [] place = "absent" -> "createPlaylist"
      [] place = "found" -> "items"
      [] place \in {"adding", "appending"} -> "addItems"
      [] OTHER -> "none"

\* C10: a failure of playlist lookup (other than not-found), item listing,
\* createPlaylist or addItems makes import_playlist raise one
\* PlaylistImportError naming the playlist and wrapping the cause, and return no
\* ImportResult; what the call changed in the catalog before stays as it is.
C10_SyncFailure ==
    [][ipc' = "failed" =>
          /\ ipc # "failed"
          /\ error = NoError
          /\ error' = [type |-> "PlaylistImportError", playlist_name |-> PlaylistName,
                       cause |-> CallAt(ipc)]
          /\ CallAt(ipc) # "none"
          /\ result' = NoResult
          /\ playlist_exists' = playlist_exists
          /\ playlist_items' = playlist_items
          /\ operations' = operations]_vars

\* addItems failed in replace mode after items were removed: they stay removed
C10_Witness ==
    /\ ipc = "failed"
    /\ error.cause = "addItems"
    /\ replace_existing
    /\ Removed > 0
    /\ Len(playlist_items) < Len(prior_items)
    /\ result = NoResult

(***************************************************************************)
(* SyncTwiceSpec: _apply_playlist_changes (playlist_importer.py 120-170)   *)
(* called with a list of matched tracks, and called again with the same    *)
(* playlist name, list and replace flag once it has returned.              *)
(***************************************************************************)
\* the tracks of a matched list: at most MaxMatched
MaxMatched == 2

\* the tracks the loop of lines 55-99 can put in the list
PlayableTracks == {k \in RatingKeys : ValidTrack(k) /\ _has_playable_media(Library[k])}

\* the lists the loop can hand over: no track twice (lines 75-78)
MatchedLists ==
    {tracks \in SeqsUpTo(PlayableTracks, MaxMatched) :
        \A i, j \in 1..Len(tracks) : tracks[i] = tracks[j] => i = j}

\* the locals of _apply_playlist_changes at the call
SyncStart ==
    /\ ipc = "sync"
    /\ listed_items = <<>>
    /\ retry_index = 0
    /\ result = NoResult
    /\ error = NoError
    /\ operations = <<>>

InitSync ==
    /\ match_threshold \in {7000}
    /\ stop_words_order = RemasteredFirst
    /\ MatcherIdle
    /\ matched_tracks \in MatchedLists
    /\ index = Len(matched_tracks)
    /\ matched_count = Len(matched_tracks)
    /\ seen_rating_keys = {matched_tracks[i] : i \in 1..Len(matched_tracks)}
    /\ unmatched = <<>>
    /\ attempt_log = <<>>
    /\ SyncStart
    /\ replace_existing \in BOOLEAN
    /\ playlist_exists \in BOOLEAN
    /\ playlist_items \in IF playlist_exists THEN SeqsUpTo(ExistingPool, MaxExisting)
                          ELSE {<<>>}
    /\ prior_items = playlist_items
    /\ CallerIdle

\* what is kept of a call that returned: the playlist it left, what it returned,
\* and whether the catalog failed in it (the bulk removal of lines 151-154; any
\* other failure ends the call in an exception)
RunRecord ==
    [items |-> playlist_items, added_count |-> result.added_count,
     failed |-> retry_index # 0, operations |-> operations]

\* the call has returned: the same call is made again
SyncAgain ==
    /\ ipc = "done"
    /\ runs = <<>>
    /\ runs' = Append(runs, RunRecord)
    /\ ipc' = "sync"
    /\ listed_items' = <<>>
    /\ retry_index' = 0
    /\ result' = NoResult
    /\ operations' = <<>>
    /\ prior_items' = playlist_items
    /\ UNCHANGED <<match_threshold, stop_words_order, matcher_vars, loop_vars,
                   replace_existing, error, playlist_exists, playlist_items, job_vars,
                   callback_vars, tracker_vars, normalize_vars, search_call>>

NextSync ==
    \/ NoTracks
    \/ LookupPlaylist
    \/ CreatePlaylist
    \/ ListItems
    \/ RemoveItems
    \/ RemoveOne
    \/ AddItems
    \/ NoNewTracks
    \/ AppendItems
    \/ SyncAgain

SyncTwiceSpec == InitSync /\ [][NextSync]_vars

\* the second call has returned, and the catalog failed in neither call
SecondRunReturned ==
    /\ ipc = "done"
    /\ Len(runs) = 1
    /\ ~runs[1].failed
    /\ retry_index = 0

\* C11: the synchronizer run twice in a row with the same playlist name, matched
\* list and replace flag, the catalog failing in neither run, leaves the playlist
\* after the second run as it was after the first; with replace=false the second
\* run adds nothing and returns added_count 0.
C11_Idempotent ==
    SecondRunReturned =>
       /\ playlist_items = runs[1].items
       /\ ~replace_existing => (operations = <<>> /\ result.added_count = 0)

\* a second append run that found nothing to add, after a first that added one
\* of the two matched tracks
C11_Witness ==
    /\ SecondRunReturned
    /\ ~replace_existing
    /\ Len(prior_items) > Len(matched_tracks)
    /\ runs[1].added_count = 1
    /\ Len(matched_tracks) = 2
    /\ result.added_count = 0

(***************************************************************************)
(* JobProgress (progress.py): what each method does to the map _jobs under *)
(* the lock, `tracker` being the map.                                      *)
(***************************************************************************)
NewJob(total) == [processed |-> 0, total |-> total, status |-> "running"]

\* lines 12-14
start(tracker, job_id, total) ==
    [j \in DOMAIN tracker \cup {job_id} |-> IF j = job_id THEN NewJob(total) ELSE tracker[j]]

\* lines 16-20
set_total(tracker, job_id, total) ==
    IF job_id \notin DOMAIN tracker THEN tracker
    ELSE [tracker EXCEPT ![job_id].total = total]

\* update making an entry for an id that has none
update_creating(tracker, job_id, processed) ==
    [j \in DOMAIN tracker \cup {job_id} |->
        IF j # job_id THEN tracker[j]
        ELSE IF job_id \in DOMAIN tracker THEN [tracker[j] EXCEPT !.processed = processed]
        ELSE [processed |-> processed, total |-> 0, status |-> "running"]]

\* lines 22-26
update(tracker, job_id, processed) ==
    IF job_id \notin DOMAIN tracker THEN tracker
    ELSE [tracker EXCEPT ![job_id].processed = processed]

\* lines 28-32
finish(tracker, job_id) ==
    IF job_id \notin DOMAIN tracker THEN tracker
    ELSE [tracker EXCEPT ![job_id].status = "completed"]

\* lines 34-38: JobProgress.error
set_error(tracker, job_id) ==
    IF job_id \notin DOMAIN tracker THEN tracker
    ELSE [tracker EXCEPT ![job_id].status = "error"]

\* pop emptying the map
pop_clearing(tracker, job_id) == [j \in {} |-> tracker[j]]

\* lines 40-42: the map after _jobs.pop(job_id, None)
pop(tracker, job_id) == [j \in DOMAIN tracker \ {job_id} |-> tracker[j]]

\* snapshot() returning None
NotFound == [processed |-> -1, total |-> -1, status |-> "None"]

\* lines 44-49
snapshot(tracker, job_id) ==
    IF job_id \notin DOMAIN tracker THEN NotFound ELSE tracker[job_id]

TerminalStatuses == {"completed", "error"}

(***************************************************************************)
(* GET /progress/{job_id} (main.py 292-300).  The handler is a coroutine   *)
(* that never awaits: the event loop runs it in one piece.                 *)
(***************************************************************************)
\* get_progress without the pop of line 299
get_progress_keeping(tracker, job_id) ==
    [tracker |-> tracker,
     response |->
        IF snapshot(tracker, job_id) = NotFound
        THEN [job_id |-> job_id, status |-> "unknown", processed |-> 0, total |-> 0]
        ELSE [job_id |-> job_id, status |-> snapshot(tracker, job_id).status,
              processed |-> snapshot(tracker, job_id).processed,
              total |-> snapshot(tracker, job_id).total]]

\* the map it leaves and the body it answers
get_progress(tracker, job_id) ==
    [tracker |->
        IF snapshot(tracker, job_id).status \in TerminalStatuses
        THEN pop(tracker, job_id) ELSE tracker,
     response |->
        IF snapshot(tracker, job_id) = NotFound
        THEN [job_id |-> job_id, status |-> "unknown", processed |-> 0, total |-> 0]
        ELSE [job_id |-> job_id, status |-> snapshot(tracker, job_id).status,
              processed |-> snapshot(tracker, job_id).processed,
              total |-> snapshot(tracker, job_id).total]]

(***************************************************************************)
(* JobSpec: the POST /import requests (main.py 72-264), their worker       *)
(* threads (asyncio.to_thread, line 210) and the GET /progress polls, on   *)
(* one event loop.  A handler runs without interruption by another handler *)
(* from one await to the next; the worker threads run at any time.  Each   *)
(* call of the tracker is one step (the lock of progress.py makes it so).  *)
(***************************************************************************)
\* the entries of a request's CSV: at most MaxTotal
MaxTotal == 2

\* `if job_id:` (lines 119, 130, 156, 162, 174, 218, 238, 242, 262)
IfJobId(job_id, changed) == IF job_id = "" THEN _jobs ELSE changed

At(r, place) == requests[r].pc = place

Goto(r, place) == requests' = [requests EXCEPT ![r].pc = place]

\* lines 118-120: a request arrives with a job id, or without
StartJob(r) ==
    /\ UNCHANGED library_vars
    /\ running = 0
    /\ At(r, "new")
    /\ \E job_id \in JobIds \cup {""} :
          /\ requests' = [requests EXCEPT ![r].pc = "started", ![r].job_id = job_id]
          /\ _jobs' = IfJobId(job_id, start(_jobs, job_id, 0))
          /\ terminal_reads' = [j \in JobIds |-> IF j = job_id THEN 0 ELSE terminal_reads[j]]
          /\ overlapped' =
                IF \E q \in Requests \ {r} :
                      requests[q].job_id = job_id /\ requests[q].pc \notin {"new", "ended"}
                THEN overlapped \cup ({job_id} \ {""})
                ELSE overlapped \ {job_id}
    /\ running' = r
    /\ UNCHANGED <<response, read_terminal>>

\* ParseFails without the call of error
ParseFailsUnmarked(r) ==
    /\ UNCHANGED library_vars
    /\ running = r
    /\ At(r, "started")
    /\ UNCHANGED _jobs
    /\ Goto(r, "csv_error")
    /\ UNCHANGED <<running, response, terminal_reads, read_terminal, overlapped>>

\* lines 122-131: parse_playlist_csv raises CSVParseError
ParseFails(r) ==
    /\ UNCHANGED library_vars
    /\ running = r
    /\ At(r, "started")
    /\ _jobs' = IfJobId(requests[r].job_id, set_error(_jobs, requests[r].job_id))
    /\ Goto(r, "csv_error")
    /\ UNCHANGED <<running, response, terminal_reads, read_terminal, overlapped>>

\* lines 122-127, 154-157: the CSV holds total entries (at least one)
SetTotal(r) ==
    /\ UNCHANGED library_vars
    /\ running = r
    /\ At(r, "started")
    /\ \E total \in 1..MaxTotal :
          /\ requests' = [requests EXCEPT ![r].pc = "parsed", ![r].total = total]
          /\ _jobs' = IfJobId(requests[r].job_id, set_total(_jobs, requests[r].job_id, total))
    /\ UNCHANGED <<running, response, terminal_reads, read_terminal, overlapped>>

\* lines 170-175: test_plex_connection reaches no server
ConnectionFails(r) ==
    /\ UNCHANGED library_vars
    /\ running = r
    /\ At(r, "parsed")
    /\ _jobs' = IfJobId(requests[r].job_id, set_error(_jobs, requests[r].job_id))
    /\ Goto(r, "connection_error")
    /\ UNCHANGED <<running, response, terminal_reads, read_terminal, overlapped>>

\* lines 170-207: the server is reached and neither the form nor the settings
\* hold a token: PlaylistImporter (playlist_importer.py 21-22) raises
\* PlaylistImportError, outside the try of line 209, and the handler ends with it
TokenMissing(r) ==
    /\ UNCHANGED library_vars
    /\ running = r
    /\ At(r, "parsed")
    /\ Goto(r, "ended")
    /\ running' = 0
    /\ UNCHANGED <<_jobs, response, terminal_reads, read_terminal, overlapped>>

\* lines 170-216: the importer is built and import_playlist starts in a thread;
\* the handler awaits it
StartWorker(r) ==
    /\ UNCHANGED library_vars
    /\ running = r
    /\ At(r, "parsed")
    /\ requests' = [requests EXCEPT ![r].pc = "in_thread", ![r].worker = "connecting"]
    /\ running' = 0
    /\ UNCHANGED <<_jobs, response, terminal_reads, read_terminal, overlapped>>

\* playlist_importer.py 35-41, in the thread: PlexServer(...) connects, or raises
\* and import_playlist raises PlaylistImportError
Connect(r) ==
    /\ UNCHANGED library_vars
    /\ requests[r].worker = "connecting"
    /\ \E place \in {"section", "raised"} :
          requests' = [requests EXCEPT ![r].worker = place]
    /\ UNCHANGED <<_jobs, running, response, terminal_reads, read_terminal, overlapped>>

\* playlist_importer.py 43-47: the music section is found, or PlaylistImportError
FindSection(r) ==
    /\ UNCHANGED library_vars
    /\ requests[r].worker = "section"
    /\ \E place \in {"entries", "raised"} :
          requests' = [requests EXCEPT ![r].worker = place]
    /\ UNCHANGED <<_jobs, running, response, terminal_reads, read_terminal, overlapped>>

\* ReportProgress storing the entries left instead of the entries done
ReportRemaining(r, processed) ==
    _jobs' = IfJobId(requests[r].job_id,
                     update(_jobs, requests[r].job_id, requests[r].total - processed))

\* main.py 161-163: progress_callback(processed)
ReportProgress(r, processed) ==
    _jobs' = IfJobId(requests[r].job_id, update(_jobs, requests[r].job_id, processed))

\* playlist_importer.py 55-99: the loop handles the next entry, and calls the
\* progress callback with its index unless the entry's match is not playable or
\* was matched before (the continue of lines 72 and 76)
HandleNext(r) ==
    /\ UNCHANGED library_vars
    /\ requests[r].worker = "entries"
    /\ requests[r].index < requests[r].total
    /\ requests' = [requests EXCEPT ![r].index = requests[r].index + 1]
    /\ \/ ReportProgress(r, requests[r].index + 1)
       \/ UNCHANGED _jobs
    /\ UNCHANGED <<running, response, terminal_reads, read_terminal, overlapped>>

\* playlist_importer.py 101-118: the playlist is synchronized and import_playlist
\* returns, or raises PlaylistImportError
Synchronize(r) ==
    /\ UNCHANGED library_vars
    /\ requests[r].worker = "entries"
    /\ requests[r].index = requests[r].total
    /\ \E place \in {"returned", "raised"} :
          requests' = [requests EXCEPT ![r].worker = place]
    /\ UNCHANGED <<_jobs, running, response, terminal_reads, read_terminal, overlapped>>

\* main.py 217-219: the await ends with PlaylistImportError
ImportFails(r) ==
    /\ UNCHANGED library_vars
    /\ running = 0
    /\ At(r, "in_thread")
    /\ requests[r].worker = "raised"
    /\ _jobs' = IfJobId(requests[r].job_id, set_error(_jobs, requests[r].job_id))
    /\ Goto(r, "import_error")
    /\ running' = r
    /\ UNCHANGED <<response, terminal_reads, read_terminal, overlapped>>

\* main.py 210-243: the await ends with the ImportResult
ImportReturns(r) ==
    /\ UNCHANGED library_vars
    /\ running = 0
    /\ At(r, "in_thread")
    /\ requests[r].worker = "returned"
    /\ _jobs' = IfJobId(requests[r].job_id, finish(_jobs, requests[r].job_id))
    /\ Goto(r, "finished")
    /\ running' = r
    /\ UNCHANGED <<response, terminal_reads, read_terminal, overlapped>>

\* main.py 221-237, 245-261: building the response raises (TemplateResponse
\* loads and renders a template of the directory app/templates, found from the
\* working directory), and the handler ends with it
ResponseFails(r) ==
    /\ UNCHANGED library_vars
    /\ running = r
    /\ At(r, "import_error") \/ At(r, "finished")
    /\ Goto(r, "ended")
    /\ running' = 0
    /\ UNCHANGED <<_jobs, response, terminal_reads, read_terminal, overlapped>>

\* main.py 132, 176, 238-240, 262-264: the handler pops the job and returns
PopJob(r) ==
    /\ UNCHANGED library_vars
    /\ running = r
    /\ At(r, "csv_error") \/ At(r, "connection_error") \/ At(r, "import_error")
          \/ At(r, "finished")
    /\ _jobs' = IfJobId(requests[r].job_id, pop(_jobs, requests[r].job_id))
    /\ Goto(r, "ended")
    /\ running' = 0
    /\ UNCHANGED <<response, terminal_reads, read_terminal, overlapped>>

Least(a, b) == IF a <= b THEN a ELSE b

\* main.py 292-300: a poll of job_id
Poll(job_id) ==
    /\ UNCHANGED library_vars
    /\ running = 0
    /\ _jobs' = get_progress(_jobs, job_id).tracker
    /\ response' = get_progress(_jobs, job_id).response
    /\ IF response'.status \in TerminalStatuses
       THEN /\ terminal_reads' =
                  [terminal_reads EXCEPT ![job_id] = Least(terminal_reads[job_id] + 1, 2)]
            /\ read_terminal' = read_terminal \cup {job_id}
       ELSE UNCHANGED <<terminal_reads, read_terminal>>
    /\ UNCHANGED overlapped
    /\ UNCHANGED <<requests, running>>

InitJobs ==
    /\ match_threshold \in {7000}
    /\ stop_words_order = RemasteredFirst
    /\ MatcherIdle
    /\ ImporterIdle
    /\ CallerIdle

NextJobs ==
    \/ \E r \in Requests :
          \/ StartJob(r)
          \/ ParseFails(r)
          \/ SetTotal(r)
          \/ ConnectionFails(r)
          \/ TokenMissing(r)
          \/ StartWorker(r)
          \/ Connect(r)
          \/ FindSection(r)
          \/ HandleNext(r)
          \/ Synchronize(r)
          \/ ImportFails(r)
          \/ ImportReturns(r)
          \/ ResponseFails(r)
          \/ PopJob(r)
    \/ \E job_id \in JobIds : Poll(job_id)

JobSpec == InitJobs /\ [][NextJobs]_vars

(***************************************************************************)
(* The terminal read (spec section 3, main.py 292-300).                    *)
(* terminal_reads[j] counts the polls of j that returned completed or      *)
(* error since j was last started; read_terminal holds the ids a poll ever *)
(* returned a terminal status for.  A poll finds a terminal status only    *)
(* when the handler ended between finish/error and its own pop.            *)
(***************************************************************************)
PollNow(job_id) == get_progress(_jobs, job_id).response

\* C12 as claimed: once a poll has returned a terminal status for an id, every
\* later poll for that id returns "unknown".
C12_AsClaimed ==
    \A job_id \in read_terminal : PollNow(job_id).status = "unknown"

\* C12: from the start of a job under an id until the next start under that id,
\* at most one poll returns a terminal status; that poll removes the job, and
\* every later poll for the id returns "unknown".
C12_AtMostOneTerminalRead ==
    \A job_id \in JobIds :
       /\ terminal_reads[job_id] <= 1
       /\ terminal_reads[job_id] = 1 =>
             /\ job_id \notin DOMAIN _jobs
             /\ PollNow(job_id).status = "unknown"

\* a poll returned the terminal status of "a", and the poll after it "unknown"
C12_Witness ==
    /\ terminal_reads["a"] = 1
    /\ response.job_id = "a"
    /\ response.status = "unknown"

(***************************************************************************)
(* Removal of a job (main.py 132, 176, 239, 263 and 298-299).              *)
(***************************************************************************)
Started(job_id) == \E r \in Requests : requests[r].pc # "new" /\ requests[r].job_id = job_id

\* C13 as claimed: a job that was started and is no longer in the tracker has
\* had its terminal status returned by a poll.
C13_AsClaimed ==
    \A job_id \in JobIds :
       (Started(job_id) /\ job_id \notin DOMAIN _jobs) => job_id \in read_terminal

RemovedNow(job_id) == job_id \in DOMAIN _jobs /\ job_id \notin DOMAIN _jobs'

\* C13: a job is removed from the tracker only when its status is terminal,
\* never while it is running; the step removing it is the handler's own pop on
\* its way out, or the poll that returns the terminal status.
C13_RemovedOnlyTerminal ==
    [][\A job_id \in JobIds :
          RemovedNow(job_id) =>
             /\ _jobs[job_id].status \in TerminalStatuses
             /\ \/ \E r \in Requests : running = r /\ requests[r].job_id = job_id
                                          /\ requests'[r].pc = "ended"
                \/ /\ requests' = requests
                   /\ response'.job_id = job_id
                   /\ response'.status = _jobs[job_id].status]_vars

\* the handler has removed the completed job "a" and no poll returned a
\* terminal status
C13_Witness ==
    /\ requests[1].job_id = "a"
    /\ requests[1].pc = "ended"
    /\ requests[1].worker = "returned"
    /\ requests[2].pc = "new"
    /\ "a" \notin DOMAIN _jobs
    /\ read_terminal = {}

(***************************************************************************)
(* The end of a request (main.py 118-264).                                 *)
(***************************************************************************)
RequestsEnded(job_id) ==
    /\ Started(job_id)
    /\ \A r \in Requests : requests[r].job_id = job_id => requests[r].pc = "ended"

\* C14: no job id stays in the tracker with status running after the requests
\* that started it have ended, on whichever path they ended.
C14_LeavesRunning ==
    \A job_id \in JobIds :
       RequestsEnded(job_id) =>
          ~(job_id \in DOMAIN _jobs /\ _jobs[job_id].status = "running")

(***************************************************************************)
(* The processed value of a job (progress.py 12-26, main.py 161-163).      *)
(***************************************************************************)
StartedNow(job_id) ==
    \E r \in Requests : requests[r].pc = "new" /\ requests'[r].job_id = job_id

Decreased(job_id) ==
    /\ job_id \in DOMAIN _jobs
    /\ job_id \in DOMAIN _jobs'
    /\ _jobs'[job_id].processed < _jobs[job_id].processed

\* C15 as claimed: between the start of a job and its removal no step lowers
\* the processed value stored under its id, two requests under one id included.
C15_AsClaimed ==
    [][\A job_id \in JobIds : ~StartedNow(job_id) => ~Decreased(job_id)]_vars

\* C15: for a job id that was not started while another request under the same
\* id was in progress, no step between the start of the job and its removal
\* lowers the processed value stored under that id.
C15_ProcessedGrows ==
    [][\A job_id \in JobIds :
          (~StartedNow(job_id) /\ job_id \notin overlapped)
             => ~Decreased(job_id)]_vars

\* one request under "a" has reported its second entry
C15_Witness ==
    /\ requests[1].job_id = "a"
    /\ requests[1].worker = "entries"
    /\ requests[2].job_id # "a"
    /\ "a" \in DOMAIN _jobs
    /\ _jobs["a"].processed = 2

(***************************************************************************)
(* CallbackSpec: import_playlist called with a progress callback           *)
(* (playlist_importer.py 24-31, 95-99).  Spec is the call without one.     *)
(***************************************************************************)
\* the continue of lines 72 and 76: the match is not playable, or its ratingKey
\* was seen before
Continues(a) ==
    /\ a.result # None
    /\ \/ ~_has_playable_media(Library[a.result.track])
       \/ a.result.track \in seen_rating_keys

\* ReportIndex without the try of line 96: the exception leaves import_playlist
ReportIndexUncaught(raises) ==
    /\ progress_calls' = Append(progress_calls, index + 1)
    /\ callback_raised' = raises
    /\ ipc' = IF raises THEN "failed" ELSE "matching"

\* lines 95-99: progress_callback(index); an exception of it is logged, and the
\* loop goes on
ReportIndex(raises) ==
    /\ progress_calls' = Append(progress_calls, index + 1)
    /\ callback_raised' = raises
    /\ ipc' = "matching"

\* lines 55-99: one turn of the loop with a callback
HandleAndReport(e, a) ==
    /\ HandleEntry(e, a)
    /\ IF Continues(a)
       THEN UNCHANGED <<ipc, callback_vars>>
       ELSE \E raises \in BOOLEAN : ReportIndex(raises)

MatchEntryReporting ==
    /\ ipc = "matching"
    /\ index < MaxEntries
    /\ \E e \in PoolEntries :
          \E catalog \in ImportCatalogs(e, stop_words_order) :
             HandleAndReport(e, find_best_match(e, catalog, match_threshold, stop_words_order))
    /\ UNCHANGED <<match_threshold, stop_words_order, matcher_vars, runs, job_vars,
                   tracker_vars, normalize_vars, search_call, replace_existing, sync_vars, catalog_vars,
                   prior_items>>

InitCallback ==
    /\ match_threshold \in {7000}
    /\ stop_words_order = RemasteredFirst
    /\ MatcherIdle
    /\ ipc = "matching"
    /\ ImporterStart
    /\ replace_existing \in BOOLEAN
    /\ playlist_exists \in BOOLEAN
    /\ playlist_items \in IF playlist_exists THEN SeqsUpTo(ExistingPool, MaxExisting)
                          ELSE {<<>>}
    /\ prior_items = playlist_items
    /\ CallerIdle

NextCallback ==
    \/ MatchEntryReporting
    \/ EndOfEntries
    \/ NoTracks
    \/ LookupPlaylist
    \/ CreatePlaylist
    \/ ListItems
    \/ RemoveItems
    \/ RemoveOne
    \/ AddItems
    \/ NoNewTracks
    \/ AppendItems

CallbackSpec == InitCallback /\ [][NextCallback]_vars

\* C16: after every entry, whatever its outcome, the callback has been called
\* with the 1-based count of entries processed so far: after n entries it has
\* received exactly 1, 2, ..., n in that order.
C16_CalledAfterEveryEntry == progress_calls = [n \in 1..index |-> n]

\* the step calls the callback, and the call raises
RaisedNow == Len(progress_calls') > Len(progress_calls) /\ callback_raised'

\* C17: a progress callback that raises does not abort the run and does not
\* change its outcome: the turn of the loop leaves the matched tracks, the
\* counts and the unmatched list as the entry's attempt alone determines them,
\* the loop goes on, and the ImportResult of a run that ends holds the counts
\* and the unmatched list of the entries' attempts.
C17_CallbackFailureIgnored ==
    /\ [][RaisedNow =>
             /\ ipc' = "matching"
             /\ HandleEntry(HandledNow.entry, HandledNow.attempt)
             /\ UNCHANGED <<replace_existing, sync_vars, catalog_vars, prior_items>>]_vars
    /\ [](ipc = "done" =>
             /\ result.matched_count = Len(PlayableMatches)
             /\ result.unmatched = unmatched)

\* the callback raised on the second of two entries, both tracks were matched
\* and the playlist was written with them
C17_Witness ==
    /\ ipc = "done"
    /\ callback_raised
    /\ Len(progress_calls) = 2
    /\ result.matched_count = 2
    /\ result.added_count = 2
    /\ Len(playlist_items) >= 2

(***************************************************************************)
(* TrackerSpec: JobProgress (progress.py 7-49) called by threads at will.  *)
(* Every method is `with self._lock:` around its body: a call waits for    *)
(* the lock, runs its body, and leaves the lock.                           *)
(***************************************************************************)
\* the calls a thread can make: start(job_id, 0), set_total(job_id, 1),
\* update(job_id, 1), finish, error, pop and snapshot of a job id
Calls ==
    {[pc |-> "waiting", op |-> op, job_id |-> job_id, arg |-> 0, got |-> <<>>] :
        op \in {"start", "finish", "error", "pop", "snapshot"}, job_id \in JobIds}
    \cup
    {[pc |-> "waiting", op |-> op, job_id |-> job_id, arg |-> 1, got |-> <<>>] :
        op \in {"set_total", "update"}, job_id \in JobIds}

\* the map a call's body leaves
Body(call, tracker) ==
    CASE call.op = "start" -> start(tracker, call.job_id, call.arg)
      [] call.op = "set_total" -> set_total(tracker, call.job_id, call.arg)
      [] call.op = "update" -> update(tracker, call.job_id, call.arg)
      [] call.op = "finish" -> finish(tracker, call.job_id)
      [] call.op = "error" -> set_error(tracker, call.job_id)
      [] call.op = "pop" -> pop(tracker, call.job_id)
      [] call.op = "snapshot" -> tracker

\* what a call's body returns: the copy of snapshot (lines 46-49), the entry of
\* pop (line 42), and None otherwise
Returned(call, tracker) ==
    IF call.op \in {"snapshot", "pop"} THEN snapshot(tracker, call.job_id) ELSE <<>>

\* what the calls of the tracker leave alone
tracker_frame ==
    <<match_threshold, stop_words_order, matcher_vars, import_vars, runs, callback_vars,
      requests, running, response, terminal_reads, read_terminal, overlapped,
      normalize_vars, search_call>>

\* a thread calls a method of the tracker
CallTracker(t) ==
    /\ UNCHANGED tracker_frame
    /\ threads[t].pc = "idle"
    /\ \E call \in Calls : threads' = [threads EXCEPT ![t] = call]
    /\ UNCHANGED <<_lock, held_jobs, _jobs>>

\* Acquire without waiting for the lock
AcquireUnlocked(t) ==
    /\ UNCHANGED tracker_frame
    /\ threads[t].pc = "waiting"
    /\ _lock' = t
    /\ held_jobs' = _jobs
    /\ threads' = [threads EXCEPT ![t].pc = "inside"]
    /\ UNCHANGED _jobs

\* `with self._lock:` entered (lines 13, 17, 23, 29, 35, 41, 45)
Acquire(t) ==
    /\ UNCHANGED tracker_frame
    /\ threads[t].pc = "waiting"
    /\ _lock = 0
    /\ _lock' = t
    /\ held_jobs' = _jobs
    /\ threads' = [threads EXCEPT ![t].pc = "inside"]
    /\ UNCHANGED _jobs

\* the body of the method
RunBody(t) ==
    /\ UNCHANGED tracker_frame
    /\ threads[t].pc = "inside"
    /\ _jobs' = Body(threads[t], _jobs)
    /\ threads' = [threads EXCEPT ![t].pc = "done", ![t].got = Returned(threads[t], _jobs)]
    /\ UNCHANGED <<_lock, held_jobs>>

\* `with self._lock:` left, and the method returns
Release(t) ==
    /\ UNCHANGED tracker_frame
    /\ threads[t].pc = "done"
    /\ _lock' = 0
    /\ held_jobs' = <<>>
    /\ threads' = [threads EXCEPT ![t] = NoCall]
    /\ UNCHANGED _jobs

InitTracker == InitJobs

NextTracker ==
    \E t \in Threads : CallTracker(t) \/ Acquire(t) \/ RunBody(t) \/ Release(t)

TrackerSpec == InitTracker /\ [][NextTracker]_vars

\* the thread's call has run its body on a map that did not hold its job id
DoneOnAbsent(t) ==
    /\ threads[t].pc = "done"
    /\ threads[t].job_id \notin DOMAIN held_jobs

\* C18: set_total, update, finish and error called with a job id that is absent
\* leave the whole map unchanged: no entry is created, no other job is altered.
C18_AbsentIdNoOp ==
    \A t \in Threads :
       (DoneOnAbsent(t) /\ threads[t].op \in {"set_total", "update", "finish", "error"})
          => _jobs = held_jobs

\* update("a", 1) has run while the map held "b" only
C18_Witness ==
    /\ DoneOnAbsent(1)
    /\ threads[1].op = "update"
    /\ threads[1].job_id = "a"
    /\ DOMAIN _jobs = {"b"}
    /\ _jobs["b"].status = "completed"

Inside(t) == threads[t].pc \in {"inside", "done"}

\* C19: the tracker's operations are mutually exclusive and atomic: at most one
\* thread is in the body of a method; from its entry to its return no other
\* call changes the map, so the map a call leaves is its own body applied to
\* the map left by the calls completed before it (no completed write is lost),
\* and snapshot returns the processed, total and status of that map.
C19_MutuallyExclusive ==
    /\ \A t, u \in Threads : (Inside(t) /\ Inside(u)) => t = u
    /\ \A t \in Threads :
          /\ Inside(t) => _lock = t
          /\ threads[t].pc = "inside" => _jobs = held_jobs
          /\ threads[t].pc = "done" =>
                /\ _jobs = Body(threads[t], held_jobs)
                /\ threads[t].got = Returned(threads[t], held_jobs)

\* snapshot("a") has returned the completed job with its counts while another
\* thread waits to pop it
C19_Witness ==
    /\ threads[1].pc = "done"
    /\ threads[1].op = "snapshot"
    /\ threads[1].job_id = "a"
    /\ threads[1].got = [processed |-> 1, total |-> 1, status |-> "completed"]
    /\ threads[2].pc = "waiting"
    /\ threads[2].op = "pop"
    /\ threads[2].job_id = "a"

(***************************************************************************)
(* QuerySpec: _build_queries (matching.py 94-109) on the entries the CSV   *)
(* loader can build (csv_loader.py 62-83): track and artist stripped and   *)
(* not empty, the album stripped, or absent.                               *)
(***************************************************************************)
QueryTitles ==
    {<<"S", "o", "s">>,
     <<"S", "o", "s", " ", "(", "L", "i", "v", "e", ")">>,
     <<"S", "o", "s", " ", "-", " ", "L", "i", "v", "e">>,
     <<"S", "o", "s", " ", "f", "e", "a", "t", ".", " ", "A", "b">>,
     <<"(", "L", "i", "v", "e", ")">>,
     <<"S", "o", "s", " ", "(", "L", "i", "v", "e", ")", " ", "-", " ", "M", "i", "x", " ", "f", "e", "a", "t", ".", " ", "A", "b">>,
     <<"s", "o", "s", " ", "-", " ", "S", "O", "S">>,
     <<"S", "o", " ", "f", "e", "a", "t", ".", "A", "b", " ", "-", " ", "L", "i", "v", "e">>,
     <<"S", "o", " ", "f", "e", "a", "t", "u", "r", "i", "n", "g", " ", "A", "b", " ", "(", "L", "i", "v", "e", ")", " ", "-", " ", "M", "i", "x">>}

QueryArtists == {<<"A", "b", "b", "a">>, <<"A", "b">>}

QueryAlbums == {<<>>, <<"G", "o", "l", "d">>, <<"G">>}

QueryEntries ==
    {[track_name |-> title, artist_name |-> artist, album_name |-> album] :
        title \in QueryTitles, artist \in QueryArtists, album \in QueryAlbums}

InitQuery ==
    /\ match_threshold \in {7000}
    /\ stop_words_order = RemasteredFirst
    /\ mpc = "idle"
    /\ arg_entry \in QueryEntries
    /\ built_queries = <<>>
    /\ query_index = 0
    /\ matcher = MatcherStart
    /\ attempt = NoAttempt
    /\ ImporterIdle
    /\ CallerIdle

\* matching.py 52-58: find_best_match builds the queries of its entry
BuildQueries ==
    /\ mpc = "idle"
    /\ mpc' = "searching"
    /\ built_queries' = _build_queries(arg_entry)
    /\ query_index' = 1
    /\ UNCHANGED <<match_threshold, stop_words_order, arg_entry, matcher, attempt,
                   import_vars, caller_vars>>

NextQuery == BuildQueries

QuerySpec == InitQuery /\ [][NextQuery]_vars

\* the queries claimed for one title variant, the most specific first
ClaimedQueries(title, artist, album) ==
    IF album # <<>>
    THEN << [title |-> title, artist |-> artist, album |-> album],
            [title |-> title, artist |-> artist, album |-> <<>>],
            [title |-> title, artist |-> <<>>, album |-> album],
            [title |-> title, artist |-> <<>>, album |-> <<>>] >>
    ELSE << [title |-> title, artist |-> artist, album |-> <<>>],
            [title |-> title, artist |-> <<>>, album |-> <<>>] >>

QueriesPerVariant == IF arg_entry.album_name # <<>> THEN 4 ELSE 2

\* C20: for each title variant in generator order the builder emits
\* {title, artist, album}, {title, artist}, {title, album}, {title} in that
\* order, the two album queries only when the entry has an album, and no query
\* has an empty title.
C20_QueryOrder ==
    mpc = "searching" =>
       /\ Len(built_queries) = QueriesPerVariant * Len(_title_variants(arg_entry.track_name))
       /\ \A i \in 1..Len(_title_variants(arg_entry.track_name)) :
             \A k \in 1..QueriesPerVariant :
                built_queries[(i - 1) * QueriesPerVariant + k] =
                   ClaimedQueries(_title_variants(arg_entry.track_name)[i],
                                  arg_entry.artist_name, arg_entry.album_name)[k]
       /\ \A q \in 1..Len(built_queries) : built_queries[q].title # <<>>

\* an entry with an album and four title variants has got its sixteen queries
C20_Witness ==
    /\ mpc = "searching"
    /\ arg_entry.album_name # <<>>
    /\ Len(_title_variants(arg_entry.track_name)) = 4
    /\ Len(built_queries) = 16

(***************************************************************************)
(* NormalizeSpec: normalize_key (matching.py 195-203) called on a text,    *)
(* and again on what it returned, in a process whose order of STOP_WORDS   *)
(* is stop_words_order.                                                    *)
(***************************************************************************)
NormalizePieces ==
    {<<"S", "o", "s">>,
     <<"r", "e", "m", "a", "s", "t", "e", "r", "e", "d">>,
     <<"R", "e", "m", "a", "s", "t", "e", "r">>,
     <<"-", " ", "L", "i", "v", "e">>,
     <<"(", "f", "e", "a", "t", ".", " ", "A", "b", ")">>,
     <<"[", "x", "]">>,
     <<"-", " ", "d", "e", "l", "u", "x", "e", " ", "e", "d", "i", "t", "i", "o", "n">>,
     <<"É">>,
     <<"ß">>,
     <<"f", "e", "a", "t", ".">>,
     <<"-", "r", "e", "m", "a", "s", "t", "e", "r", " ", "2">>,
     <<"e", "x", "p", "l", "i", "c", "i", "t">>,
     <<" ">>,
     <<"e", "d">>,
     <<"e", "d", "i", "t", "i", "o", "n">>}

\* the texts: one piece, or two pieces put together or a space apart
NormalizeTexts ==
    NormalizePieces
    \cup {a \o b : a \in NormalizePieces, b \in NormalizePieces}
    \cup {a \o <<" ">> \o b : a \in NormalizePieces, b \in NormalizePieces}

InitNormalize ==
    /\ match_threshold \in {7000}
    /\ stop_words_order \in StopWordOrders
    /\ MatcherIdle
    /\ ImporterIdle
    /\ runs = <<>>
    /\ ServiceStart
    /\ progress_calls = <<>>
    /\ callback_raised = FALSE
    /\ TrackerUnused
    /\ norm_input \in NormalizeTexts
    /\ norm_output = <<>>
    /\ norm_passes = 0
    /\ search_call = SearchIdle

\* normalize_key(text), the first time on the input and then on its own result
CallNormalize ==
    /\ norm_passes < 2
    /\ norm_output' = normalize_key(IF norm_passes = 0 THEN norm_input ELSE norm_output,
                                    stop_words_order)
    /\ norm_passes' = norm_passes + 1
    /\ UNCHANGED <<match_threshold, stop_words_order, matcher_vars, import_vars, runs,
                   job_vars, callback_vars, tracker_vars, norm_input, search_call>>

NextNormalize == CallNormalize

NormalizeSpec == InitNormalize /\ [][NextNormalize]_vars

\* C21: normalize is deterministic and idempotent: what it returns for a text
\* does not depend on the process that computes it, and normalizing the result
\* again gives the result.
C21_DeterministicIdempotent ==
    /\ norm_passes = 1 =>
          \A order \in StopWordOrders : norm_output = normalize_key(norm_input, order)
    /\ norm_passes = 2 => norm_output = normalize_key(norm_input, stop_words_order)

\* normalizing the result of normalize_key again gives the same result, in
\* either order of STOP_WORDS
NormalizeIdempotent ==
    norm_passes >= 1 =>
       \A order \in StopWordOrders : normalize_key(norm_output, order) = norm_output

(***************************************************************************)
(* find_best_match: the best candidate (matching.py 59-92).                *)
(***************************************************************************)
\* the calls of _score_candidate whose score is at or above the threshold
Qualifying == {i \in 1..Len(matcher.scored) : matcher.scored[i].score >= match_threshold}

\* the first of the qualifying calls with the highest score
FirstBest ==
    CHOOSE i \in Qualifying :
       /\ \A j \in Qualifying : matcher.scored[j].score <= matcher.scored[i].score
       /\ \A j \in Qualifying : matcher.scored[j].score = matcher.scored[i].score => i <= j

NoPerfectScore == \A i \in 1..Len(matcher.scored) : matcher.scored[i].score # 10000

\* C22: when no candidate scores exactly 100, the result is the candidate with
\* the highest score among the scored candidates at or above the threshold (a
\* score equal to the threshold qualifies), the first met in query order among
\* those with that score; it is none when no score qualifies.
C22_BestCandidate ==
    (mpc = "done" /\ NoPerfectScore) =>
       attempt.result = IF Qualifying = {} THEN None ELSE matcher.scored[FirstBest]

\* two candidates got the same qualifying score below 100, and the first is
\* the result
C22_Witness ==
    /\ mpc = "done"
    /\ NoPerfectScore
    /\ Len(matcher.scored) >= 2
    /\ matcher.scored[1].score = matcher.scored[2].score
    /\ matcher.scored[1].score >= match_threshold
    /\ attempt.result = matcher.scored[1]

(***************************************************************************)
(* C23: within one call of find_best_match every ratingKey is scored at    *)
(* most once, however many queries return it; the set of seen keys is new  *)
(* in every call, it holds the keys this call scored and no other, so a    *)
(* call that got candidates scores at least one of them whatever the       *)
(* earlier calls scored.                                                   *)
(***************************************************************************)
ScoredOnce ==
    \A i, j \in 1..Len(matcher.scored) :
        i # j => matcher.scored[i].track # matcher.scored[j].track

C23_ScoredOncePerCall ==
    /\ ScoredOnce
    /\ matcher.seen_keys = ScoredTracks(matcher)
    /\ matcher.had_candidates => matcher.scored # <<>>

\* a track scored by an earlier call is scored again by a call of several queries
C23_Witness ==
    /\ mpc = "done"
    /\ matcher.queries_run >= 2
    /\ Len(matcher.scored) >= 2
    /\ matcher.scored[1].track \in matcher.earlier

(***************************************************************************)
(* SearchSpec: one call _search_candidates(query) (matching.py 111-157),   *)
(* step by step.  search_call.calls records the calls made to the catalog  *)
(* and what each did: a list of ratingKeys, or SearchError when it raised. *)
(***************************************************************************)
QueriesOf(entry) == {_build_queries(entry)[i] : i \in 1..Len(_build_queries(entry))}

\* the queries find_best_match builds, and one without a title
SearchQueries == UNION {QueriesOf(e) : e \in MatchEntries} \cup {NoQuery}

InitSearch ==
    /\ match_threshold = 7000
    /\ stop_words_order = RemasterFirst
    /\ MatcherIdle
    /\ ImporterIdle
    /\ runs = <<>>
    /\ ServiceStart
    /\ progress_calls = <<>>
    /\ callback_raised = FALSE
    /\ TrackerUnused
    /\ norm_input = <<>>
    /\ norm_output = <<>>
    /\ norm_passes = 0
    /\ \E query \in SearchQueries :
          search_call = [pc |-> "start", query |-> query, calls |-> <<>>, found |-> <<>>]

search_frame ==
    <<match_threshold, stop_words_order, matcher_vars, import_vars, runs, job_vars,
      callback_vars, tracker_vars, normalize_vars>>

\* lines 112-115: no title, no search
NoTitle ==
    /\ search_call.pc = "start"
    /\ search_call.query.title = <<>>
    /\ search_call' = [search_call EXCEPT !.pc = "returned", !.found = <<>>]
    /\ UNCHANGED search_frame

\* SearchTracks without the except of line 119: the error leaves the function
SearchTracksUncaught ==
    /\ search_call.pc = "start"
    /\ search_call.query.title # <<>>
    /\ \E structured \in SearchOutcomes :
          search_call' =
              [search_call EXCEPT
                  !.calls = Append(@, [api |-> "searchTracks", outcome |-> structured]),
                  !.pc = IF structured = SearchError THEN "raised"
                         ELSE IF FilterTracks(structured) # <<>> THEN "returned"
                         ELSE "fallback",
                  !.found = IF structured = SearchError THEN <<>>
                            ELSE FilterTracks(structured)]
    /\ UNCHANGED search_frame

\* lines 117-132: section.searchTracks, its error caught, the filter, the return
\* of what the filter left
SearchTracks ==
    /\ search_call.pc = "start"
    /\ search_call.query.title # <<>>
    /\ \E structured \in SearchOutcomes :
          LET results == IF structured = SearchError THEN <<>> ELSE structured
              filtered == FilterTracks(results)
          IN search_call' =
                 [search_call EXCEPT
                     !.calls = Append(@, [api |-> "searchTracks", outcome |-> structured]),
                     !.pc = IF filtered # <<>> THEN "returned" ELSE "fallback",
                     !.found = filtered]
    /\ UNCHANGED search_frame

\* lines 134-157: section.search with the joined text, its error caught, the filter
SearchFallback ==
    /\ search_call.pc = "fallback"
    /\ \E fallback \in SearchOutcomes :
          search_call' =
              [search_call EXCEPT
                  !.calls = Append(@, [api |-> "search", outcome |-> fallback]),
                  !.pc = "returned",
                  !.found = IF fallback = SearchError THEN <<>> ELSE FilterTracks(fallback)]
    /\ UNCHANGED search_frame

NextSearch == NoTitle \/ SearchTracks \/ SearchFallback

SearchSpec == InitSearch /\ [][NextSearch]_vars

\* what the calls recorded did: the outcome of the n-th, and of a call not made
OutcomeOf(n) == IF n <= Len(search_call.calls) THEN search_call.calls[n].outcome ELSE <<>>

\* the step-by-step call returns what the operator _search_candidates gives
SearchAgrees ==
    search_call.pc = "returned" =>
        /\ search_call.found = _search_candidates(search_call.query, OutcomeOf(1), OutcomeOf(2))
        /\ (Len(search_call.calls) = 2) = UsesFallback(search_call.query, OutcomeOf(1))

(***************************************************************************)
(* C24: an error of the catalog during retrieval never leaves              *)
(* _search_candidates: when section.searchTracks raises, section.search is *)
(* still called; when section.search raises, the call returns no           *)
(* candidate; section.search is called only when section.searchTracks gave *)
(* no valid track (it raised, or the filter left nothing); every call      *)
(* returns a list of valid tracks.                                         *)
(***************************************************************************)
StructuredRaised ==
    Len(search_call.calls) >= 1 /\ search_call.calls[1].outcome = SearchError

FallbackRaised ==
    Len(search_call.calls) = 2 /\ search_call.calls[2].outcome = SearchError

C24_RetrievalErrorsSwallowed ==
    /\ search_call.pc # "raised"
    /\ search_call.pc = "returned" =>
          /\ StructuredRaised => Len(search_call.calls) = 2
          /\ FallbackRaised => search_call.found = <<>>
          /\ Len(search_call.calls) = 2 =>
                 \/ StructuredRaised
                 \/ FilterTracks(search_call.calls[1].outcome) = <<>>
          /\ \A i \in 1..Len(search_call.found) : ValidTrack(search_call.found[i])

\* searchTracks raised, and the fallback found a track
C24_Witness ==
    /\ search_call.pc = "returned"
    /\ StructuredRaised
    /\ search_call.calls[2].outcome # SearchError
    /\ search_call.found # <<>>

\* find_best_match goes through all its queries unless a score of 100 ends it,
\* whatever the searches did
AllQueriesRun ==
    (mpc = "done" /\ ~matcher.returned) => matcher.queries_run = Len(built_queries)

(***************************************************************************)
(* C27: for the MatchAttempt a call of find_best_match returns, when the   *)
(* call scored a candidate: there is a result exactly when best_score is   *)
(* at or above the threshold, best_score is the highest of the scores, and *)
(* the score of the result is best_score; when the call scored none,       *)
(* best_score is 0 and there is no result.  (As claimed, the first part    *)
(* also for a call that scored none: C27_AsClaimed.)                       *)
(***************************************************************************)
Scores == {matcher.scored[i].score : i \in 1..Len(matcher.scored)}

HighestScore == IF Scores = {} THEN 0 ELSE CHOOSE s \in Scores : \A t \in Scores : t <= s

ResultAsScored ==
    /\ attempt.best_score = HighestScore
    /\ attempt.result # None => attempt.result.score = attempt.best_score
    /\ matcher.scored = <<>> => attempt.best_score = 0 /\ attempt.result = None

C27_AsClaimed ==
    mpc = "done" =>
        /\ (attempt.result # None) <=> (attempt.best_score >= match_threshold)
        /\ ResultAsScored

C27_ResultIffThreshold ==
    mpc = "done" =>
        /\ matcher.scored # <<>> =>
               ((attempt.result # None) <=> (attempt.best_score >= match_threshold))
        /\ ResultAsScored

\* a call that scored two candidates and returns the second, the higher
C27_Witness ==
    /\ mpc = "done"
    /\ Len(matcher.scored) = 2
    /\ matcher.scored[1].score >= match_threshold
    /\ matcher.scored[2].score > matcher.scored[1].score
    /\ attempt.result = matcher.scored[2]
    /\ attempt.best_score = matcher.scored[2].score

(***************************************************************************)
(* C25: in replace mode, when playlist.removeItems(items) raises, the call *)
(* tries to remove every listed item by itself; no error of a removal      *)
(* leaves the call; the call goes on to add the matched tracks, and when   *)
(* it returns it has added all of them in one call and added_count is      *)
(* len(tracks).                                                            *)
(***************************************************************************)
BulkRemovalFailed == retry_index >= 1

C25_RemovalRetried ==
    /\ error.cause # "removeItems"
    /\ ipc = "retrying" => replace_existing /\ retry_index \in 1..Len(listed_items)
    /\ (BulkRemovalFailed /\ ipc # "retrying") =>
          /\ retry_index = Len(listed_items) + 1
          /\ ipc \in {"adding", "done", "failed"}
          /\ ipc = "failed" => error.cause = "addItems"
          /\ ipc = "done" =>
                /\ result.added_count = Len(matched_tracks)
                /\ operations[Len(operations)] = Mutation("addItems", matched_tracks)

\* the bulk removal failed, a prior item could not be removed either, and the
\* call returned having added the matched tracks
C25_Witness ==
    /\ ipc = "done"
    /\ BulkRemovalFailed
    /\ Len(listed_items) = 2
    /\ Len(playlist_items) = Len(matched_tracks) + 1
    /\ result.added_count = Len(matched_tracks)

(***************************************************************************)
(* C26: the call removes only items the playlist held when it started:     *)
(* every removal comes before anything is added, only with replace on a    *)
(* playlist that existed, and of each ratingKey no more items are removed  *)
(* than the playlist held; without replace, and when the playlist is       *)
(* created, nothing is removed, and the items held before the call stay,   *)
(* in their order, at the head of the playlist.                            *)
(***************************************************************************)
CountIn(k, list) == Cardinality({i \in 1..Len(list) : list[i] = k})

\* how many items of ratingKey k the removals of the call took
RemovedOf(k) ==
    LET upto[n \in 0..Len(operations)] ==
            IF n = 0 THEN 0
            ELSE IF operations[n].op = "removeItems"
                 THEN upto[n - 1] + CountIn(k, operations[n].tracks)
                 ELSE upto[n - 1]
    IN upto[Len(operations)]

IsPrefix(head, list) ==
    Len(head) <= Len(list) /\ SubSeq(list, 1, Len(head)) = head

C26_RemovesOnlyPrior ==
    /\ \A i \in 1..Len(operations) :
          operations[i].op = "removeItems" =>
             /\ replace_existing
             /\ PlaylistExisted
             /\ \A j \in 1..i : operations[j].op = "removeItems"
    /\ \A k \in RatingKeys : RemovedOf(k) <= CountIn(k, prior_items)
    /\ ~replace_existing => IsPrefix(prior_items, playlist_items)

\* replace: the playlist held a track that is matched again; the old item was
\* removed, the matched track added after it stays
C26_Witness ==
    /\ ipc = "done"
    /\ replace_existing
    /\ prior_items # <<>>
    /\ Removed = Len(prior_items)
    /\ \E i \in 1..Len(matched_tracks) : IsIn(matched_tracks[i], prior_items)
    /\ playlist_items = matched_tracks

(***************************************************************************)
(* C28: when import_playlist returns, over the N entries it handled:       *)
(* matched_count + len(unmatched) = N, every entry being counted as        *)
(* matched or recorded as one UnmatchedTrack and never both; the unmatched *)
(* list holds the entries without a playable match in input order; and     *)
(* added_count <= the number of different matched tracks <= matched_count. *)
(***************************************************************************)
\* the places, in input order, of the entries that got no playable match
UnmatchedPlaces ==
    LET upto[n \in 0..Len(attempt_log)] ==
            IF n = 0 THEN <<>>
            ELSE IF GotPlayableMatch(attempt_log[n]) THEN upto[n - 1]
            ELSE Append(upto[n - 1], n)
    IN upto[Len(attempt_log)]

C28_Counts ==
    ipc = "done" =>
       /\ Len(attempt_log) = index
       /\ result.matched_count + Len(result.unmatched) = index
       /\ Len(result.unmatched) = Len(UnmatchedPlaces)
       /\ \A i \in 1..Len(result.unmatched) :
             /\ result.unmatched[i].row = UnmatchedPlaces[i] + 1
             /\ result.unmatched[i].track_name = attempt_log[UnmatchedPlaces[i]].entry.track_name
             /\ result.unmatched[i].artist_name = attempt_log[UnmatchedPlaces[i]].entry.artist_name
       /\ result.added_count <= Len(matched_tracks)
       /\ Len(matched_tracks) = Cardinality(seen_rating_keys)
       /\ Len(matched_tracks) <= result.matched_count

\* of two entries one matched and one got a track without playable media; the
\* playlist held the matched track already, and nothing was added
C28_Witness ==
    /\ ipc = "done"
    /\ index = 2
    /\ result.matched_count = 1
    /\ Len(result.unmatched) = 1
    /\ GotUnplayableMatch(attempt_log[1])
    /\ result.added_count = 0

(***************************************************************************)
(* C29: a call of the tracker for a job id (start, set_total, update,      *)
(* finish, error, pop, snapshot; a poll is a snapshot and a pop) leaves    *)
(* what the tracker holds for every other job id as it is, whatever the    *)
(* other threads are doing.                                                *)
(***************************************************************************)
\* what the tracker holds for job_id
JobState(job_id) == snapshot(_jobs, job_id)

\* thread t runs the body of its call in this step
RunsBodyNow(t) == threads[t].pc = "inside" /\ threads'[t].pc = "done"

C29_OtherJobsUntouched ==
    [][/\ \A t \in Threads :
             RunsBodyNow(t) =>
                \A job_id \in JobIds \ {threads[t].job_id} : JobState(job_id)' = JobState(job_id)
       /\ (\A t \in Threads : ~RunsBodyNow(t)) => _jobs' = _jobs]_vars

\* a thread has popped job "a" while the other waits with a call for "b": "b"
\* is still held
C29_Witness ==
    /\ threads[1].pc = "done"
    /\ threads[1].op = "pop"
    /\ threads[1].job_id = "a"
    /\ threads[1].got # NotFound
    /\ threads[2].pc = "waiting"
    /\ threads[2].job_id = "b"
    /\ "a" \notin DOMAIN _jobs
    /\ "b" \in DOMAIN _jobs

\* JobSpec: what the tracker holds for a job id changes only in a step of a
\* request under that id or of a poll for that id
RunsDoNotInterfere ==
    [][\A job_id \in JobIds :
          JobState(job_id)' # JobState(job_id) =>
             \/ \E r \in Requests : requests'[r] # requests[r] /\ requests'[r].job_id = job_id
             \/ requests' = requests /\ response'.job_id = job_id]_vars

=============================================================================
